---- MODULE Spec2Model ----
(***************************************************************************)
(* The bytecode pipeline of the Lox interpreter (src/src/bytecode):        *)
(* the single-pass Pratt compiler (compiler.rs), the chunk (chunk.rs),     *)
(* the values and objects (value.rs, object.rs) and the stack VM (vm.rs).  *)
(*                                                                         *)
(* A source is a string of characters, scanned one token at a time         *)
(* (scanner.rs) as Parser::advance asks for them.                          *)
(* Strings are TLA+ strings; a Number is an exact rational (num/den), with *)
(* den = 0 standing for the IEEE specials (1/0 inf, -1/0 -inf, 0/0 NaN);   *)
(* the negative zero and rounding of f64 are not represented.              *)
(***************************************************************************)
EXTENDS Integers, Sequences, FiniteSets, TLC

(***************************************************************************)
(* Bounds of the model.                                                    *)
(***************************************************************************)
\* interpret calls made on one VM (the REPL makes one per line)
MaxCalls == 2
\* instructions one run may execute (every program of Sources ends sooner)
MaxSteps == 300
\* writes made to a Chunk taken on its own, and the highest line they name
MaxWrites == 4
MaxLine == 2
\* lines entered in one REPL session (interpret calls on one VM)
MaxLines == 129
\* chars of the longest string made into a StringObj taken on its own
MaxKey == 3
\* statements of the longest program given to a Parser taken on its own (each
\* adds one constant: one more than the 256 a chunk can index)
MaxStatements == 257

(***************************************************************************)
(* value.rs: HashableF64 and its arithmetic.                               *)
(***************************************************************************)
Abs(n) == IF n < 0 THEN -n ELSE n

Sign(n) == IF n < 0 THEN -1 ELSE IF n > 0 THEN 1 ELSE 0

RECURSIVE GCD(_, _)
GCD(a, b) == IF b = 0 THEN a ELSE GCD(b, a % b)

\* the rational n/d in lowest terms, the denominator never negative
Norm(n, d) ==
    IF d = 0 THEN [num |-> Sign(n), den |-> 0]
    ELSE LET g == GCD(Abs(n), Abs(d))
         IN  [num |-> (Sign(d) * n) \div g, den |-> Abs(d) \div g]

NaN == [num |-> 0, den |-> 0]

IsNaN(x) == x.den = 0 /\ x.num = 0

F64Add(a, b) ==
    IF IsNaN(a) \/ IsNaN(b) THEN NaN
    ELSE IF a.den = 0 /\ b.den = 0 THEN (IF a.num = b.num THEN a ELSE NaN)
    ELSE Norm(a.num * b.den + b.num * a.den, a.den * b.den)

F64Sub(a, b) == F64Add(a, [num |-> -b.num, den |-> b.den])

F64Mul(a, b) ==
    IF IsNaN(a) \/ IsNaN(b) THEN NaN ELSE Norm(a.num * b.num, a.den * b.den)

F64Div(a, b) ==
    IF IsNaN(a) \/ IsNaN(b) THEN NaN ELSE Norm(a.num * b.den, a.den * b.num)

\* derive(PartialEq, PartialOrd) on HashableF64(f64): NaN equals and orders with nothing
F64Eq(a, b) == ~IsNaN(a) /\ ~IsNaN(b) /\ a = b

F64Lt(a, b) ==
    /\ ~IsNaN(a) /\ ~IsNaN(b)
    /\ IF a.den = 0 /\ b.den = 0 THEN a.num < b.num
       ELSE a.num * b.den < b.num * a.den

F64Gt(a, b) == F64Lt(b, a)

\* a local of the code: the value v, computed once, under the name F gives it
Let(v, F(_)) == CHOOSE r \in {F(x) : x \in {v}} : TRUE

(***************************************************************************)
(* table.rs: hash_string.  A u32 is the pair of its 16-bit halves (hi, lo),*)
(* the integers of TLC being of 32 bits, signed.                           *)
(***************************************************************************)
U32(hi, lo) == [hi |-> hi, lo |-> lo]

\* the chars of the codes 32 to 126, in order: the char of index i has the
\* code 31 + i (a newline holds the place of the code 96, whose char no string
\* of TLA+ holds)
AsciiPrintable ==
    " !\"#$%&'()*+,-./0123456789:;<=>?@ABCDEFGHIJKLMNOPQRSTUVWXYZ[\\]^_"
    \o "\nabcdefghijklmnopqrstuvwxyz{|}~"

\* the UTF-8 bytes of a char: the code of an ASCII char, two bytes for é (U+00E9)
Utf8(c) ==
    CASE c = "é" -> <<195, 169>>
      [] c = "\n" -> <<10>>
      [] c = "\t" -> <<9>>
      [] c = "\r" -> <<13>>
      [] OTHER -> <<31 + CHOOSE i \in 1..Len(AsciiPrintable) :
                             SubSeq(AsciiPrintable, i, i) = c>>

\* the bitwise XOR of two numbers of n bits
RECURSIVE Xor(_, _, _)
Xor(a, b, n) ==
    IF n = 0 THEN 0 ELSE ((a + b) % 2) + 2 * Xor(a \div 2, b \div 2, n - 1)

\* hash ^= *byte as u32: the byte meets the low eight bits
xor_byte(hash, byte) == [hash EXCEPT !.lo = (@ - (@ % 256)) + Xor(@ % 256, byte, 8)]

\* u32::wrapping_mul: the low 32 bits of the product (the products of the
\* halves stay inside TLC's integers for the multiplier used)
wrapping_mul(a, b) ==
    LET low == a.lo * b.lo
    IN  [lo |-> low % 65536,
         hi |-> (a.hi * b.lo + a.lo * b.hi + low \div 65536) % 65536]

\* 2166136261u32 and 16777619, in halves
FnvBasis == U32(33052, 40389)

FnvPrime == U32(256, 403)

\* a hash that multiplies before it XORs (FNV-1)
RECURSIVE hash_bytes_fnv1(_, _, _)
hash_bytes_fnv1(key, i, hash) ==
    IF i > Len(key) THEN hash
    ELSE Let(xor_byte(wrapping_mul(hash, FnvPrime), key[i]),
             LAMBDA h : hash_bytes_fnv1(key, i + 1, h))

\* the loop of hash_string over the bytes of key, from the byte i on
RECURSIVE hash_bytes(_, _, _)
hash_bytes(key, i, hash) ==
    IF i > Len(key) THEN hash
    ELSE Let(wrapping_mul(xor_byte(hash, key[i]), FnvPrime),
             LAMBDA h : hash_bytes(key, i + 1, h))

\* str::as_bytes
RECURSIVE as_bytes(_, _)
as_bytes(key, i) ==
    IF i > Len(key) THEN <<>>
    ELSE Let(Utf8(SubSeq(key, i, i)), LAMBDA bytes : bytes \o as_bytes(key, i + 1))

hash_string_fnv1(key) == hash_bytes_fnv1(as_bytes(key, 1), 1, FnvBasis)

hash_string(key) == hash_bytes(as_bytes(key, 1), 1, FnvBasis)

(***************************************************************************)
(* value.rs, object.rs: Value and Obj.                                     *)
(***************************************************************************)
Nil == [type |-> "Nil"]

Bool(b) == [type |-> "Bool", bool |-> b]

Number(n) == [type |-> "Number", number |-> n]

\* the Number holding the integer i
Num(i) == Number(Norm(i, 1))

\* StringObj::new
StringObj_new(s) == [type |-> "String", string |-> s, hash |-> hash_string(s)]

\* Function::new
Function_new == [arity |-> 0, chunk |-> [code |-> <<>>, lines |-> <<>>, constants |-> <<>>],
                 name |-> "None"]

\* Closure::new; id names the object (the Box) the VM creates, for identity
Closure_new(function, id) == [type |-> "Closure", function |-> function, id |-> id]

ObjFunction(function) == [type |-> "Function", function |-> function]

NativeFunction_new(function) == [type |-> "NativeFunction", function |-> function]

\* a falsiness that counts 0 and the empty string in
is_falsey_loose(v) ==
    CASE v.type = "Nil" -> TRUE
      [] v.type = "Bool" -> ~v.bool
      [] v.type = "Number" -> v.number = [num |-> 0, den |-> 1]
      [] v.type = "String" -> v.string = ""
      [] OTHER -> FALSE

is_falsey(v) ==
    CASE v.type = "Nil" -> TRUE
      [] v.type = "Bool" -> ~v.bool
      [] OTHER -> FALSE

\* derive(PartialEq) on Value and Obj: same variant and equal payload; a
\* closure's payload is its function (the derive knows no object identity)
ValueEq(a, b) ==
    /\ a.type = b.type
    /\ CASE a.type = "Nil" -> TRUE
         [] a.type = "Bool" -> a.bool = b.bool
         [] a.type = "Number" -> F64Eq(a.number, b.number)
         [] a.type = "String" -> a.string = b.string
         [] a.type = "Closure" -> a.function = b.function
         [] a.type = "Function" -> a.function = b.function
         [] a.type = "NativeFunction" -> a.function = b.function
         [] OTHER -> FALSE

(***************************************************************************)
(* Display (fmt::Display for Value, Obj, HashableF64), what Print writes.  *)
(***************************************************************************)
Digits == <<"0", "1", "2", "3", "4", "5", "6", "7", "8", "9">>

RECURSIVE NatToStr(_)
NatToStr(n) == IF n < 10 THEN Digits[n + 1] ELSE NatToStr(n \div 10) \o Digits[(n % 10) + 1]

\* the fraction digits of r/d, while the expansion terminates within k digits
RECURSIVE FracToStr(_, _, _)
FracToStr(r, d, k) ==
    IF r = 0 THEN ""
    ELSE IF k = 0 THEN "~"
    ELSE Digits[((10 * r) \div d) + 1] \o FracToStr((10 * r) % d, d, k - 1)

DisplayF64(x) ==
    IF x.den = 0 THEN (IF x.num = 0 THEN "NaN" ELSE IF x.num > 0 THEN "inf" ELSE "-inf")
    ELSE LET whole == Abs(x.num) \div x.den
             rest == Abs(x.num) % x.den
         IN  (IF x.num < 0 THEN "-" ELSE "") \o NatToStr(whole)
             \o (IF rest = 0 THEN "" ELSE "." \o FracToStr(rest, x.den, 6))

DisplayFunction(f) == IF f.name = "None" THEN "<script>" ELSE "<fn " \o f.name \o ">"

Display(v) ==
    CASE v.type = "Nil" -> "nil"
      [] v.type = "Bool" -> (IF v.bool THEN "true" ELSE "false")
      [] v.type = "Number" -> DisplayF64(v.number)
      [] v.type = "String" -> v.string
      [] v.type = "Closure" -> DisplayFunction(v.function)
      [] v.type = "Function" -> DisplayFunction(v.function)
      [] v.type = "NativeFunction" -> "<native fn>"

(***************************************************************************)
(* chunk.rs: OpCode and Chunk.                                             *)
(***************************************************************************)
\* #[repr(u8)] enum OpCode, in declaration order (Print_ is OpCode::Print: the
\* bare word is a TLC operator)
OpCode == [Constant |-> 0, Nil |-> 1, True |-> 2, False |-> 3, Pop |-> 4,
           GetLocal |-> 5, SetLocal |-> 6, GetGlobal |-> 7, DefineGlobal |-> 8,
           Equal |-> 9, SetGlobal |-> 10, Greater |-> 11, Less |-> 12, Add |-> 13,
           Subtract |-> 14, Multiply |-> 15, Divide |-> 16, Not |-> 17,
           Negate |-> 18, Print_ |-> 19, Jump |-> 20, JumpIfFalse |-> 21,
           Loop |-> 22, Call |-> 23, Closure |-> 24, Return |-> 25]

\* Into<u8> for OpCode: the discriminant of the variant (repr(u8), in the order
\* of the declaration)
OpCode_into(variant) == OpCode[variant]

\* TryFrom<u8> for OpCode: Ok of the variant of that discriminant up to the
\* largest variant's, Err(()) above
OpCode_try_from(value) ==
    IF value <= OpCode_into("Return")
    THEN [ok |-> TRUE, variant |-> CHOOSE v \in DOMAIN OpCode : OpCode[v] = value]
    ELSE [ok |-> FALSE, variant |-> "Err"]

Chunk_new == [code |-> <<>>, lines |-> <<>>, constants |-> <<>>]

\* Chunk::write: append the byte, extend the last run of the line table or open one
Chunk_write(chunk, byte, line) ==
    LET n == Len(chunk.lines)
    IN  [chunk EXCEPT
           !.code = Append(@, byte),
           !.lines = IF n > 0 /\ @[n].number = line
                     THEN [@ EXCEPT ![n].count = @ + 1]
                     ELSE Append(@, [number |-> line, count |-> 1])]

\* Chunk::add_constant: append, no deduplication (the index is Len - 1)
Chunk_add_constant(chunk, value) == [chunk EXCEPT !.constants = Append(@, value)]

\* a get_line that stops one run early: at the run that starts at the offset asked
RECURSIVE get_line_from_early(_, _, _, _, _)
get_line_from_early(lines, k, current_position, number, index) ==
    IF k > Len(lines) \/ current_position >= index THEN number
    ELSE get_line_from_early(lines, k + 1, current_position + lines[k].count,
                             lines[k].number, index)

\* Chunk::get_line
RECURSIVE get_line_from(_, _, _, _, _)
get_line_from(lines, k, current_position, number, index) ==
    IF k > Len(lines) \/ current_position > index THEN number
    ELSE get_line_from(lines, k + 1, current_position + lines[k].count, lines[k].number, index)

Chunk_get_line(chunk, index) == get_line_from(chunk.lines, 1, 0, 0, index)

(***************************************************************************)
(* scanner.rs: the Token (type, lexeme, line) and the Scanner, a record    *)
(*   source          the text, a string of chars (UTF-8 in the program)    *)
(*   start, current  the offsets of the lexeme being scanned               *)
(*   line            the line counter                                      *)
(*   panicked        an unwrap failed (chars().nth past the last char), or *)
(*                   a slice was cut inside a char                         *)
(* A method that returns a value and moves the Scanner is an operator to a *)
(* record of both.                                                         *)
(***************************************************************************)
Token(type, lexeme, line) == [type |-> type, lexeme |-> lexeme, line |-> line]

\* Default::default() of a Token: what mem::take leaves and what the Parser starts with
DefaultToken == Token("Default", "", 0)

\* the char '\0', which no source holds
NUL == "NUL"

\* source.chars().nth(i) of an index inside the source
nth(source, i) == SubSeq(source, i + 1, i + 1)

\* the chars of more than one byte in UTF-8 that the sources hold: one, of two
\* bytes (every other char is ASCII, of one byte)
TwoBytes == {"é"}

\* str::len: the bytes of the source, not its chars
ByteLen(source) ==
    Len(source) + Cardinality({i \in 1..Len(source) : SubSeq(source, i, i) \in TwoBytes})

\* Scanner::new; len is source.len(), which the str carries
Scanner_new(source) ==
    [source |-> source, len |-> ByteLen(source), start |-> 0, current |-> 0, line |-> 1,
     panicked |-> FALSE]

\* the chars that end at or before the byte offset b, when b is at the start of a
\* char or at the end of the source (is_char_boundary); none otherwise
CharsBefore(s, b) ==
    IF s.len = Len(s.source)
    THEN IF b <= s.len THEN {b} ELSE {}
    ELSE {k \in 0..Len(s.source) : ByteLen(SubSeq(s.source, 1, k)) = b}

\* &source[start..current] panics unless both byte offsets are char boundaries
Sliceable(s) == CharsBefore(s, s.start) # {} /\ CharsBefore(s, s.current) # {}

\* &source[start..current], the offsets being bytes
Slice(s) ==
    IF Sliceable(s)
    THEN SubSeq(s.source, (CHOOSE k \in CharsBefore(s, s.start) : TRUE) + 1,
                CHOOSE k \in CharsBefore(s, s.current) : TRUE)
    ELSE ""

\* char::is_ascii_alphabetic
AsciiAlphabetic ==
    {"a", "b", "c", "d", "e", "f", "g", "h", "i", "j", "k", "l", "m", "n", "o", "p", "q",
     "r", "s", "t", "u", "v", "w", "x", "y", "z", "A", "B", "C", "D", "E", "F", "G", "H",
     "I", "J", "K", "L", "M", "N", "O", "P", "Q", "R", "S", "T", "U", "V", "W", "X", "Y",
     "Z"}

\* char::is_ascii_digit
AsciiDigit == {"0", "1", "2", "3", "4", "5", "6", "7", "8", "9"}

\* current counts the chars advanced over and is compared with the bytes
is_at_end(s) == s.current >= s.len

\* Scanner::advance: the char it returns is nth(s.source, s.current) of the
\* Scanner it is given; past the end the unwrap panics
Scanner_advance(s) ==
    [s EXCEPT !.current = @ + 1, !.panicked = @ \/ s.current >= Len(s.source)]

\* Scanner::peek; before the last byte and past the last char the unwrap
\* panics (Peeked), and the char is of no account
Scanner_peek(s) ==
    IF is_at_end(s) \/ s.current >= Len(s.source) THEN NUL ELSE nth(s.source, s.current)

Peeked(s) ==
    [s EXCEPT !.panicked = @ \/ (~is_at_end(s) /\ s.current >= Len(s.source))]

\* Scanner::peek_next, likewise (NextPeeked)
peek_next(s) ==
    IF s.current + 1 >= s.len \/ s.current + 1 >= Len(s.source) THEN NUL
    ELSE nth(s.source, s.current + 1)

NextPeeked(s) ==
    [s EXCEPT !.panicked = @ \/ (s.current + 1 < s.len
                                  /\ s.current + 1 >= Len(s.source))]

\* Scanner::matches: ret is the bool returned
Scanner_matches(s, expected) ==
    IF is_at_end(s) THEN [scanner |-> s, ret |-> FALSE]
    ELSE IF Scanner_peek(s) # expected THEN [scanner |-> Peeked(s), ret |-> FALSE]
    ELSE [scanner |-> [s EXCEPT !.current = @ + 1], ret |-> TRUE]

is_alpha(c) == c \in AsciiAlphabetic \/ c = "_"

make_token(s, type) == Token(type, Slice(s), s.line)

\* the token make_token returns and the Scanner after it: the slice may panic
Made(s, type) ==
    [scanner |-> [s EXCEPT !.panicked = @ \/ ~Sliceable(s)],
     token |-> make_token(s, type)]

error_token(s, message) == Token("Error", message, s.line)

\* the while loop of a // comment
RECURSIVE line_comment(_)
line_comment(s) ==
    IF Scanner_peek(s) # "\n" /\ ~is_at_end(s)
    THEN Let(Scanner_advance(s), LAMBDA a : line_comment(a))
    ELSE s

\* the while loop of multi_line_comment
RECURSIVE multi_line_comment_loop(_, _)
multi_line_comment_loop(s, comment_nest_depth) ==
    IF comment_nest_depth > 0 /\ ~is_at_end(s)
    THEN LET opened == IF Scanner_peek(s) = "/" /\ peek_next(s) = "*"
                       THEN comment_nest_depth + 1 ELSE comment_nest_depth
             closed == IF Scanner_peek(s) = "*" /\ peek_next(s) = "/"
                       THEN opened - 1 ELSE opened
             counted == IF Scanner_peek(s) = "\n" THEN [s EXCEPT !.line = @ + 1] ELSE s
             peeked == IF Scanner_peek(s) \in {"/", "*"} THEN NextPeeked(counted)
                       ELSE Peeked(counted)
         IN  Let(Scanner_advance(peeked), LAMBDA a : multi_line_comment_loop(a, closed))
    ELSE s

\* Scanner::multi_line_comment: the loop, then two advances for the closing */
multi_line_comment(s) ==
    Let(multi_line_comment_loop(s, 1), LAMBDA a : Scanner_advance(Scanner_advance(a)))

\* Scanner::skip_whitespace; at a '/' that opens no // comment, matches('*')
\* looks at that same '/'
RECURSIVE skip_whitespace(_)
skip_whitespace(s) ==
    Let(Scanner_peek(s), LAMBDA c :
        CASE c \in {" ", "\r", "\t"} ->
               Let(Scanner_advance(s), LAMBDA a : skip_whitespace(a))
          [] c = "\n" ->
               Let(Scanner_advance([s EXCEPT !.line = @ + 1]), LAMBDA a : skip_whitespace(a))
          [] c = "/" ->
               IF peek_next(s) = "/"
               THEN Let(line_comment(s), LAMBDA a : skip_whitespace(a))
               ELSE Let(Scanner_matches(NextPeeked(s), "*"), LAMBDA m :
                        IF m.ret
                        THEN Let(multi_line_comment(m.scanner), LAMBDA a : skip_whitespace(a))
                        ELSE m.scanner)
          [] OTHER -> Peeked(s))

check_keyword(s, start, length, rest, type) ==
    IF s.current - s.start = start + length
       /\ Slice(s) = rest
    THEN type
    ELSE "Identifier"

\* Scanner::identifier_type: the match is on peek(), the char after the lexeme
identifier_type(s) ==
    Let(Scanner_peek(s), LAMBDA c :
        CASE c = "a" -> check_keyword(s, 1, 2, "nd", "And")
          [] c = "c" -> check_keyword(s, 1, 4, "lass", "Class")
          [] c = "e" -> check_keyword(s, 1, 3, "lse", "Else")
          [] c = "f" ->
               IF s.current - s.start > 1
               THEN CASE peek_next(s) = "a" -> check_keyword(s, 2, 3, "lse", "False")
                      [] peek_next(s) = "o" -> check_keyword(s, 2, 1, "r", "For")
                      [] peek_next(s) = "u" -> check_keyword(s, 2, 1, "n", "Fun")
                      [] OTHER -> "Identifier"
               ELSE "Error"
          [] c = "i" -> check_keyword(s, 1, 1, "f", "If")
          [] c = "n" -> check_keyword(s, 1, 2, "il", "Nil")
          [] c = "o" -> check_keyword(s, 1, 1, "r", "Or")
          [] c = "p" -> check_keyword(s, 1, 4, "rint", "Print")
          [] c = "r" -> check_keyword(s, 1, 5, "eturn", "Return")
          [] c = "s" -> check_keyword(s, 1, 4, "uper", "Super")
          [] c = "t" ->
               IF s.current - s.start > 1
               THEN CASE peek_next(s) = "h" -> check_keyword(s, 2, 2, "is", "This")
                      [] peek_next(s) = "r" -> check_keyword(s, 2, 2, "ue", "True")
                      [] OTHER -> "Identifier"
               ELSE "Error"
          [] c = "v" -> check_keyword(s, 1, 2, "ar", "Var")
          [] c = "w" -> check_keyword(s, 1, 4, "hile", "While")
          [] OTHER -> "Identifier")

\* the while loop of identifier
RECURSIVE identifier_loop(_)
identifier_loop(s) ==
    IF is_alpha(Scanner_peek(s)) \/ Scanner_peek(s) \in AsciiDigit
    THEN Let(Scanner_advance(s), LAMBDA a : identifier_loop(a))
    ELSE Peeked(s)

\* Scanner::identifier, and the Scanner it leaves
identifier(s) ==
    Let(identifier_loop(s), LAMBDA scanned :
        Made(IF Scanner_peek(scanned) \in {"f", "t"} /\ scanned.current - scanned.start > 1
             THEN NextPeeked(scanned) ELSE scanned,
             identifier_type(scanned)))

\* the while loops of number
RECURSIVE digits_loop(_)
digits_loop(s) ==
    IF Scanner_peek(s) \in AsciiDigit
    THEN Let(Scanner_advance(s), LAMBDA a : digits_loop(a))
    ELSE Peeked(s)

Scanner_number(s) ==
    Let(digits_loop(s), LAMBDA whole :
    Let(IF Scanner_peek(whole) = "." /\ peek_next(whole) \in AsciiDigit
        THEN digits_loop(Scanner_advance(whole))
        ELSE IF Scanner_peek(whole) = "." THEN NextPeeked(whole) ELSE whole,
        LAMBDA scanned : Made(scanned, "Number")))

\* the while loop of string
RECURSIVE string_loop(_)
string_loop(s) ==
    IF Scanner_peek(s) # "\"" /\ ~is_at_end(s)
    THEN Let(Scanner_advance(IF Scanner_peek(s) = "\n"
                             THEN [s EXCEPT !.line = @ + 1] ELSE s),
             LAMBDA a : string_loop(a))
    ELSE s

Scanner_string(s) ==
    Let(string_loop(s), LAMBDA scanned :
        IF is_at_end(scanned)
        THEN [scanner |-> scanned, token |-> error_token(scanned, "Unterminated string.")]
        ELSE Let(Scanner_advance(scanned), LAMBDA a : Made(a, "String")))

\* the token of a lexeme of one char, or of two when '=' follows
OneOrTwo(s, one, two) ==
    Let(Scanner_matches(s, "="), LAMBDA m :
        Made(m.scanner, IF m.ret THEN two ELSE one))

\* Scanner::scan_token: the token returned, and the Scanner it leaves (no token
\* is returned by a call that panics: the token is of no account then)
scan_token(scanner) ==
    Let(skip_whitespace(scanner), LAMBDA skipped :
    Let([skipped EXCEPT !.start = skipped.current], LAMBDA s :
    Let(Scanner_advance(s), LAMBDA a :
    LET c == nth(s.source, s.current)
        One(type) == Made(a, type)
    IN  IF skipped.panicked THEN [scanner |-> skipped, token |-> DefaultToken]
        ELSE IF is_at_end(s) THEN Made(s, "Eof")
        ELSE IF a.panicked THEN [scanner |-> a, token |-> DefaultToken]
        ELSE IF is_alpha(c) THEN identifier(a)
        ELSE IF c \in AsciiDigit THEN Scanner_number(a)
        ELSE CASE c = "(" -> One("LeftParen")
               [] c = ")" -> One("RightParen")
               [] c = "{" -> One("LeftBrace")
               [] c = "}" -> One("RightBrace")
               [] c = ";" -> One("Semicolon")
               [] c = "," -> One("Comma")
               [] c = "." -> One("Dot")
               [] c = "-" -> One("Minus")
               [] c = "+" -> One("Plus")
               [] c = "/" -> One("Slash")
               [] c = "*" -> One("Star")
               [] c = "!" -> OneOrTwo(a, "Bang", "BangEqual")
               [] c = "=" -> OneOrTwo(a, "Equal", "EqualEqual")
               [] c = "<" -> OneOrTwo(a, "Less", "LessEqual")
               [] c = ">" -> OneOrTwo(a, "Greater", "GreaterEqual")
               [] c = "\"" -> Scanner_string(a)
               [] OTHER -> [scanner |-> a, token |-> error_token(a, "Unexpected character.")])))

(***************************************************************************)
(* compiler.rs: the Parser and its Compiler.  p is the Parser:             *)
(*   scanner            the Scanner                                        *)
(*   current, previous  the two tokens of lookahead                        *)
(*   had_error, panic_mode, errors (the diagnostics written, in order)     *)
(*   locals, scope_depth   the Compiler (depth -1 is None: uninitialized)  *)
(*   chunk              compiling_chunk                                    *)
(*   hung               the Parser is in a loop that never ends, or its    *)
(*                      Scanner has panicked: the call never returns (the  *)
(*                      other fields are then of no account, errors apart) *)
(*   ret                what the method last called returned               *)
(*   syncs              the calls of synchronize so far                    *)
(***************************************************************************)
Precedence == [None |-> 0, Assignment |-> 1, Or |-> 2, And |-> 3, Equality |-> 4,
               Comparison |-> 5, Term |-> 6, Factor |-> 7, Unary |-> 8, Call |-> 9,
               Primary |-> 10]

\* the statements after a call: they run on the Parser q the call leaves, unless
\* the call never returns
Then(q, F(_)) == IF q.hung THEN q ELSE F(q)

\* an error_at that writes its diagnostic in panic mode too
error_at_always(p, token, message) ==
    IF p.hung THEN p
    ELSE [p EXCEPT !.panic_mode = TRUE,
                   !.had_error = TRUE,
                   !.errors = Append(@, [message |-> message, at |-> token.type,
                                         line |-> token.line])]

error_at(p, token, message) ==
    IF p.panic_mode \/ p.hung THEN p
    ELSE [p EXCEPT !.panic_mode = TRUE,
                   !.had_error = TRUE,
                   !.errors = Append(@, [message |-> message, at |-> token.type,
                                         line |-> token.line])]

error(p, message) == error_at(p, p.previous, message)

error_at_current(p, message) == error_at(p, p.current, message)

RECURSIVE advance_loop(_)
advance_loop(p) ==
    Let(scan_token(p.scanner), LAMBDA scanned :
    Let([p EXCEPT !.current = scanned.token, !.scanner = scanned.scanner,
                  !.hung = scanned.scanner.panicked], LAMBDA q :
        IF q.hung \/ q.current.type # "Error" THEN q
        ELSE advance_loop(error_at_current(q, q.current.lexeme))))

advance(p) ==
    IF p.hung THEN p
    ELSE advance_loop([p EXCEPT !.previous = p.current, !.current = DefaultToken])

consume(p, type, message) ==
    IF p.hung THEN p
    ELSE IF p.current.type = type THEN advance(p) ELSE error_at_current(p, message)

check(p, type) == p.current.type = type

\* Parser::matches is check, and advance when it holds: callers write
\* IF check(p, t) THEN ...advance(p)... ELSE ...p...

emit_byte(p, byte) == [p EXCEPT !.chunk = Chunk_write(@, byte, p.previous.line)]

emit_bytes(p, byte1, byte2) == emit_byte(emit_byte(p, byte1), byte2)

emit_return(p) == emit_byte(p, OpCode.Return)

end_compiler(p) == emit_return(p)

make_constant(p, value) ==
    LET q == [p EXCEPT !.chunk = Chunk_add_constant(@, value)]
        constant == Len(q.chunk.constants) - 1
    IN  IF constant > 255
        THEN [error(q, "Too many constant in one chunk.") EXCEPT !.ret = 0]
        ELSE [q EXCEPT !.ret = constant]

emit_constant(p, value) ==
    Let(make_constant(p, value), LAMBDA constant :
        emit_bytes(constant, OpCode.Constant, constant.ret))

emit_jump(p, instruction) ==
    Let(emit_byte(emit_byte(emit_byte(p, instruction), 255), 255),
        LAMBDA q : [q EXCEPT !.ret = Len(q.chunk.code) - 2])

\* a patch_jump that measures the jump from the first byte of its operand
patch_jump_from_operand(p, offset) ==
    IF p.hung THEN p
    ELSE LET jump == Len(p.chunk.code) - offset
         IN  [(IF jump > 65535 THEN error(p, "Too much code to jump over.") ELSE p)
                 EXCEPT !.chunk.code[offset + 1] = (jump \div 256) % 256,
                        !.chunk.code[offset + 2] = jump % 256]

patch_jump(p, offset) ==
    IF p.hung THEN p
    ELSE LET jump == Len(p.chunk.code) - offset - 2
         IN  [(IF jump > 65535 THEN error(p, "Too much code to jump over.") ELSE p)
                 EXCEPT !.chunk.code[offset + 1] = (jump \div 256) % 256,
                        !.chunk.code[offset + 2] = jump % 256]

emit_loop(p, loop_start) ==
    IF p.hung THEN p
    ELSE LET q == emit_byte(p, OpCode.Loop)
             offset == Len(q.chunk.code) - loop_start + 2
         IN  emit_byte(emit_byte(IF offset > 65535 THEN error(q, "Loop body too large.")
                                 ELSE q,
                                 (offset \div 256) % 256),
                       offset % 256)

identifiers_equal(a, b) == Len(a.lexeme) = Len(b.lexeme) /\ a.lexeme = b.lexeme

identifier_constant(p, name) == make_constant(p, StringObj_new(name.lexeme))

\* ret is the slot found (-1 is None)
RECURSIVE resolve_local_from(_, _, _)
resolve_local_from(p, name, i) ==
    IF i < 1 THEN [p EXCEPT !.ret = -1]
    ELSE IF identifiers_equal(name, p.locals[i].name)
         THEN [(IF p.locals[i].depth = -1
                THEN error(p, "Can't read local variable in its own initializer.")
                ELSE p) EXCEPT !.ret = i - 1]
         ELSE resolve_local_from(p, name, i - 1)

resolve_local(p, name) == resolve_local_from(p, name, Len(p.locals))

add_local(p, name) ==
    IF Len(p.locals) > 255 THEN error(p, "Too many local variables in function.")
    ELSE [p EXCEPT !.locals = Append(@, [name |-> name, depth |-> -1])]

RECURSIVE declare_variable_from(_, _, _)
declare_variable_from(p, name, i) ==
    IF i < 1 THEN p
    ELSE IF p.locals[i].depth # -1 /\ p.locals[i].depth < p.scope_depth THEN p
    ELSE declare_variable_from(
             IF identifiers_equal(name, p.locals[i].name)
             THEN error(p, "Already a variable with this name in this scope.")
             ELSE p,
             name, i - 1)

declare_variable(p) ==
    IF p.scope_depth = 0 THEN p
    ELSE add_local(declare_variable_from(p, p.previous, Len(p.locals)), p.previous)

\* ret is the global's constant index (0 for a local)
parse_variable(p, error_message) ==
    Let(declare_variable(consume(p, "Identifier", error_message)),
        LAMBDA q : IF q.scope_depth > 0 THEN [q EXCEPT !.ret = 0]
                   ELSE identifier_constant(q, q.previous))

\* locals.last_mut().unwrap(): declare_variable has left a local there
mark_initialized(p) == [p EXCEPT !.locals[Len(p.locals)].depth = p.scope_depth]

define_variable(p, global) ==
    IF p.hung THEN p
    ELSE IF p.scope_depth > 0 THEN mark_initialized(p)
    ELSE emit_bytes(p, OpCode.DefineGlobal, global)

begin_scope(p) == [p EXCEPT !.scope_depth = @ + 1]

RECURSIVE end_scope_loop(_)
end_scope_loop(p) ==
    IF Len(p.locals) > 0 /\ p.locals[Len(p.locals)].depth > p.scope_depth
    THEN end_scope_loop([emit_byte(p, OpCode.Pop) EXCEPT
                            !.locals = SubSeq(@, 1, Len(@) - 1)])
    ELSE p

end_scope(p) ==
    IF p.hung THEN p ELSE end_scope_loop([p EXCEPT !.scope_depth = @ - 1])

(***************************************************************************)
(* compiler.rs: expressions (the Pratt parser).                            *)
(***************************************************************************)
DigitValue(c) == CHOOSE d \in 0..9 : Digits[d + 1] = c

\* str::parse::<f64> of a Number lexeme, DIGIT+ ( . DIGIT+ )?: the value num / den
RECURSIVE ParseDigits(_, _, _, _)
ParseDigits(lexeme, i, num, den) ==
    IF i > Len(lexeme) THEN Norm(num, IF den = 0 THEN 1 ELSE den)
    ELSE LET c == SubSeq(lexeme, i, i)
         IN  IF c = "." THEN ParseDigits(lexeme, i + 1, num, 1)
             ELSE ParseDigits(lexeme, i + 1, 10 * num + DigitValue(c), 10 * den)

ParseF64(lexeme) == ParseDigits(lexeme, 1, 0, 0)

NoRule == [prefix |-> "None", infix |-> "None", precedence |-> Precedence.None]

\* Parser::get_rule: (prefix, infix, precedence) of a token type; every TokenType has a rule
get_rule(type) ==
    CASE type = "LeftParen" -> [NoRule EXCEPT !.prefix = "grouping"]
      [] type = "Minus" ->
            [prefix |-> "unary", infix |-> "binary", precedence |-> Precedence.Term]
      [] type = "Plus" -> [NoRule EXCEPT !.infix = "binary", !.precedence = Precedence.Term]
      [] type \in {"Slash", "Star"} ->
            [NoRule EXCEPT !.infix = "binary", !.precedence = Precedence.Factor]
      [] type = "Bang" -> [NoRule EXCEPT !.prefix = "unary"]
      [] type \in {"BangEqual", "EqualEqual"} ->
            [NoRule EXCEPT !.infix = "binary", !.precedence = Precedence.Equality]
      [] type \in {"Greater", "GreaterEqual", "Less", "LessEqual"} ->
            [NoRule EXCEPT !.infix = "binary", !.precedence = Precedence.Comparison]
      [] type = "Identifier" -> [NoRule EXCEPT !.prefix = "variable"]
      [] type = "String" -> [NoRule EXCEPT !.prefix = "string"]
      [] type = "Number" -> [NoRule EXCEPT !.prefix = "number"]
      [] type = "And" -> [NoRule EXCEPT !.infix = "and", !.precedence = Precedence.And]
      [] type = "Or" -> [NoRule EXCEPT !.infix = "or", !.precedence = Precedence.Or]
      [] type \in {"False", "Nil", "True"} -> [NoRule EXCEPT !.prefix = "literal"]
      [] OTHER -> NoRule

RECURSIVE parse_precedence(_, _)

expression(p) == parse_precedence(p, Precedence.Assignment)

\* a binary that parses its right operand at the operator's own level: the
\* operators would group to the right
binary_right(p, can_assign) ==
    LET operator_type == p.previous.type
    IN  Then(parse_precedence(p, get_rule(operator_type).precedence), LAMBDA q :
        CASE operator_type = "EqualEqual" -> emit_byte(q, OpCode.Equal)
          [] operator_type = "Less" -> emit_byte(q, OpCode.Less)
          [] operator_type = "Plus" -> emit_byte(q, OpCode.Add)
          [] operator_type = "Minus" -> emit_byte(q, OpCode.Subtract)
          [] operator_type = "Star" -> emit_byte(q, OpCode.Multiply)
          [] operator_type = "Slash" -> emit_byte(q, OpCode.Divide)
          [] OTHER -> q)

\* a binary that writes its instruction with the line of the operator, not with
\* the line of the last token of the right operand
binary_at_operator(p, can_assign) ==
    LET operator == p.previous
        operator_type == operator.type
    IN  Then(parse_precedence(p, get_rule(operator_type).precedence + 1), LAMBDA q :
        LET at == [q EXCEPT !.previous = operator]
            emitted ==
                CASE operator_type = "BangEqual" -> emit_bytes(at, OpCode.Equal, OpCode.Not)
                  [] operator_type = "EqualEqual" -> emit_byte(at, OpCode.Equal)
                  [] operator_type = "Greater" -> emit_byte(at, OpCode.Greater)
                  [] operator_type = "GreaterEqual" -> emit_bytes(at, OpCode.Less, OpCode.Not)
                  [] operator_type = "Less" -> emit_byte(at, OpCode.Less)
                  [] operator_type = "LessEqual" -> emit_bytes(at, OpCode.Greater, OpCode.Not)
                  [] operator_type = "Plus" -> emit_byte(at, OpCode.Add)
                  [] operator_type = "Minus" -> emit_byte(at, OpCode.Subtract)
                  [] operator_type = "Star" -> emit_byte(at, OpCode.Multiply)
                  [] operator_type = "Slash" -> emit_byte(at, OpCode.Divide)
        IN  [emitted EXCEPT !.previous = q.previous])

binary(p, can_assign) ==
    LET operator_type == p.previous.type
    IN  Then(parse_precedence(p, get_rule(operator_type).precedence + 1), LAMBDA q :
        CASE operator_type = "BangEqual" -> emit_bytes(q, OpCode.Equal, OpCode.Not)
          [] operator_type = "EqualEqual" -> emit_byte(q, OpCode.Equal)
          [] operator_type = "Greater" -> emit_byte(q, OpCode.Greater)
          [] operator_type = "GreaterEqual" -> emit_bytes(q, OpCode.Less, OpCode.Not)
          [] operator_type = "Less" -> emit_byte(q, OpCode.Less)
          [] operator_type = "LessEqual" -> emit_bytes(q, OpCode.Greater, OpCode.Not)
          [] operator_type = "Plus" -> emit_byte(q, OpCode.Add)
          [] operator_type = "Minus" -> emit_byte(q, OpCode.Subtract)
          [] operator_type = "Star" -> emit_byte(q, OpCode.Multiply)
          [] operator_type = "Slash" -> emit_byte(q, OpCode.Divide))

literal(p, can_assign) ==
    CASE p.previous.type = "False" -> emit_byte(p, OpCode.False)
      [] p.previous.type = "Nil" -> emit_byte(p, OpCode.Nil)
      [] p.previous.type = "True" -> emit_byte(p, OpCode.True)

grouping(p, can_assign) ==
    consume(expression(p), "RightParen", "Expect ')' after expression.")

number(p, can_assign) == emit_constant(p, Number(ParseF64(p.previous.lexeme)))

or(p, can_assign) ==
    Let(emit_jump(p, OpCode.JumpIfFalse), LAMBDA else_jump :
    Let(emit_jump(else_jump, OpCode.Jump), LAMBDA end_jump :
        patch_jump(parse_precedence(emit_byte(patch_jump(end_jump, else_jump.ret),
                                              OpCode.Pop),
                                    Precedence.Or),
                   end_jump.ret)))

string(p, can_assign) ==
    emit_constant(p, StringObj_new(SubSeq(p.previous.lexeme, 2, Len(p.previous.lexeme) - 1)))

\* the (get_op, set_op, arg) of a name, after resolve_local has looked for it
variable_ops(local, name) ==
    IF local.ret # -1
    THEN [p |-> local, arg |-> local.ret,
          get_op |-> OpCode.GetLocal, set_op |-> OpCode.SetLocal]
    ELSE Let(identifier_constant(local, name), LAMBDA global :
             [p |-> global, arg |-> global.ret,
              get_op |-> OpCode.GetGlobal, set_op |-> OpCode.SetGlobal])

\* a named_variable that takes an = whatever can_assign is
named_variable_any(p, name, can_assign) ==
    Let(variable_ops(resolve_local(p, name), name), LAMBDA v :
        IF check(v.p, "Equal")
        THEN Then(expression(advance(v.p)), LAMBDA q : emit_bytes(q, v.set_op, v.arg))
        ELSE emit_bytes(v.p, v.get_op, v.arg))

named_variable(p, name, can_assign) ==
    Let(variable_ops(resolve_local(p, name), name), LAMBDA v :
        IF can_assign /\ check(v.p, "Equal")
        THEN Then(expression(advance(v.p)), LAMBDA q : emit_bytes(q, v.set_op, v.arg))
        ELSE emit_bytes(v.p, v.get_op, v.arg))

variable(p, can_assign) == named_variable(p, p.previous, can_assign)

unary(p, can_assign) ==
    LET operator_type == p.previous.type
    IN  Then(parse_precedence(p, Precedence.Unary), LAMBDA q :
        CASE operator_type = "Bang" -> emit_byte(q, OpCode.Not)
          [] operator_type = "Minus" -> emit_byte(q, OpCode.Negate))

and(p, can_assign) ==
    Let(emit_jump(p, OpCode.JumpIfFalse), LAMBDA end_jump :
        patch_jump(parse_precedence(emit_byte(end_jump, OpCode.Pop), Precedence.And),
                   end_jump.ret))

\* a ParseFn of a rule, called; a rule without one (None) does nothing
call_rule(fn, p, can_assign) ==
    CASE fn = "grouping" -> grouping(p, can_assign)
      [] fn = "unary" -> unary(p, can_assign)
      [] fn = "binary" -> binary(p, can_assign)
      [] fn = "variable" -> variable(p, can_assign)
      [] fn = "string" -> string(p, can_assign)
      [] fn = "number" -> number(p, can_assign)
      [] fn = "and" -> and(p, can_assign)
      [] fn = "or" -> or(p, can_assign)
      [] fn = "literal" -> literal(p, can_assign)
      [] OTHER -> p

\* the prefix rule of the token just passed, called
parse_prefix(p, can_assign) == call_rule(get_rule(p.previous.type).prefix, p, can_assign)

\* the same for its infix rule
parse_infix_rule(p, can_assign) == call_rule(get_rule(p.previous.type).infix, p, can_assign)

\* the while loop of parse_precedence and the check that follows it
RECURSIVE parse_infix(_, _, _)
parse_infix(p, precedence, can_assign) ==
    IF p.hung THEN p
    ELSE IF precedence <= get_rule(p.current.type).precedence
    THEN parse_infix(parse_infix_rule(advance(p), can_assign), precedence, can_assign)
    ELSE IF can_assign /\ check(p, "Equal")
    THEN error(advance(p), "Invalid assignment target.")
    ELSE p

\* every token type has a rule, so the "Expect expression" branch is dead:
\* a token without a prefix rule is passed over in silence
parse_precedence(p, precedence) ==
    parse_infix(parse_prefix(advance(p), precedence <= Precedence.Assignment),
                precedence, precedence <= Precedence.Assignment)

(***************************************************************************)
(* compiler.rs: statements and declarations.                               *)
(***************************************************************************)
RECURSIVE statement(_)
RECURSIVE declaration(_)

var_declaration(p) ==
    Let(parse_variable(p, "Expect variable name."), LAMBDA global :
    Then(IF check(global, "Equal") THEN expression(advance(global))
         ELSE emit_byte(global, OpCode.Nil),
         LAMBDA q :
         define_variable(consume(q, "Semicolon", "Expect ';' after variable declaration."),
                         global.ret)))

expression_statement(p) ==
    Then(expression(p), LAMBDA q :
         emit_byte(consume(q, "Semicolon", "Expect ';' after expression."), OpCode.Pop))

print_statement(p) ==
    Then(expression(p), LAMBDA q :
         emit_byte(consume(q, "Semicolon", "Expect ';' after value."), OpCode.Print_))

RECURSIVE block(_)
block(p) ==
    IF p.hung THEN p
    ELSE IF check(p, "RightBrace") \/ check(p, "Eof")
    THEN consume(p, "RightBrace", "Expect '}' after block.")
    ELSE block(declaration(p))

\* the else clause
else_branch(p) == IF check(p, "Else") THEN statement(advance(p)) ELSE p

if_statement(p) ==
    Then(expression(consume(p, "LeftParen", "Expect '(' after 'if'.")), LAMBDA cond :
    Let(emit_jump(consume(cond, "RightParen", "Expect ')' after condition."),
                  OpCode.JumpIfFalse),
        LAMBDA then_jump :
    Then(statement(emit_byte(then_jump, OpCode.Pop)), LAMBDA then_branch :
    Let(emit_jump(then_branch, OpCode.Jump), LAMBDA else_jump :
        patch_jump(else_branch(emit_byte(patch_jump(else_jump, then_jump.ret), OpCode.Pop)),
                   else_jump.ret)))))

while_statement(p) ==
    Then(expression(consume(p, "LeftParen", "Expect '(' after 'while'.")), LAMBDA cond :
    Let(emit_jump(consume(cond, "RightParen", "Expect ')' after condition."),
                  OpCode.JumpIfFalse),
        LAMBDA exit_jump :
    Then(statement(emit_byte(exit_jump, OpCode.Pop)), LAMBDA body :
         emit_byte(patch_jump(emit_loop(body, Len(p.chunk.code)), exit_jump.ret),
                   OpCode.Pop))))

\* the initializer clause
for_initializer(p) ==
    IF check(p, "Semicolon") THEN advance(p)
    ELSE IF check(p, "Var") THEN var_declaration(advance(p))
    ELSE expression_statement(p)

\* the condition clause: ret is exit_jump (-1 is None)
for_condition(p) ==
    IF check(p, "Semicolon") THEN [advance(p) EXCEPT !.ret = -1]
    ELSE Then(expression(p), LAMBDA cond :
         Let(emit_jump(consume(cond, "Semicolon", "Expect ';' after loop condition."),
                       OpCode.JumpIfFalse),
             LAMBDA exit_jump : [emit_byte(exit_jump, OpCode.Pop) EXCEPT
                                    !.ret = exit_jump.ret]))

\* the increment clause: ret is the loop_start the body loops to
for_increment(p, loop_start) ==
    IF check(p, "RightParen") THEN [advance(p) EXCEPT !.ret = loop_start]
    ELSE Let(emit_jump(p, OpCode.Jump), LAMBDA body_jump :
         Then(expression(body_jump), LAMBDA incr :
              [patch_jump(emit_loop(consume(emit_byte(incr, OpCode.Pop), "RightParen",
                                            "Expect ')' after for clauses."),
                                    loop_start),
                          body_jump.ret)
                  EXCEPT !.ret = Len(body_jump.chunk.code)]))

for_statement(p) ==
    Then(for_initializer(consume(begin_scope(p), "LeftParen", "Expect '(' after 'for'.")),
         LAMBDA init :
    Then(for_condition(init), LAMBDA cond :
    Then(for_increment(cond, Len(init.chunk.code)), LAMBDA incr :
    Then(statement(incr), LAMBDA body :
         end_scope(IF cond.ret # -1
                   THEN emit_byte(patch_jump(emit_loop(body, incr.ret), cond.ret),
                                  OpCode.Pop)
                   ELSE emit_loop(body, incr.ret))))))

statement(p) ==
    IF p.hung THEN p
    ELSE CASE check(p, "Print") -> print_statement(advance(p))
           [] check(p, "If") -> if_statement(advance(p))
           [] check(p, "While") -> while_statement(advance(p))
           [] check(p, "For") -> for_statement(advance(p))
           [] check(p, "LeftBrace") -> end_scope(block(begin_scope(advance(p))))
           [] OTHER -> expression_statement(p)

\* the loop has no advance in its body: with neither exit condition met it never ends
synchronize(p) ==
    LET q == [p EXCEPT !.panic_mode = FALSE, !.syncs = @ + 1]
    IN  IF q.current.type = "Eof" THEN advance(q)
        ELSE IF q.previous.type = "Semicolon" THEN q
        ELSE IF q.current.type \in {"Class", "Fun", "Var", "For", "If", "While",
                                    "Print", "Return"} THEN q
        ELSE [q EXCEPT !.hung = TRUE]

declaration(p) ==
    IF p.hung THEN p
    ELSE Then(IF check(p, "Var") THEN var_declaration(advance(p)) ELSE statement(p),
              LAMBDA q : IF q.panic_mode THEN synchronize(q) ELSE q)

RECURSIVE compile_loop(_)
compile_loop(p) ==
    IF p.hung THEN p
    ELSE IF check(p, "Eof") THEN advance(p)
    ELSE compile_loop(declaration(p))

\* ret holds what the method last called returned (a constant's index, a jump's
\* offset, a local's slot)
Parser_new(source, chunk) ==
    [scanner |-> Scanner_new(source), current |-> DefaultToken, previous |-> DefaultToken,
     had_error |-> FALSE, panic_mode |-> FALSE, errors |-> <<>>,
     locals |-> <<>>, scope_depth |-> 0, chunk |-> chunk, hung |-> FALSE, ret |-> 0,
     syncs |-> 0]

\* compile(source, chunk): the Parser as it is when compile returns !had_error
\* (or as it is for ever, when hung)
compile(source, chunk) ==
    end_compiler(consume(compile_loop(advance(Parser_new(source, chunk))),
                         "Eof", "Expect end of expression."))

(***************************************************************************)
(* vm.rs: the VM.  Its methods are operators on the record vm:             *)
(*   frames   Vec<CallFrame>, each (closure, ip, slot)                     *)
(*   stack    Vec<Value>                                                   *)
(*   strings, globals   the two tables (globals: name -> Value)            *)
(*   status   "idle" (no call in progress), "running" (inside run),        *)
(*            "panicked" (an unwrap or an index failed: the process ends), *)
(*            "hung" (the call never returns)                              *)
(*   result   the InterpretResult of the last call that returned           *)
(*   stdout, stderr   the lines the current call has written               *)
(*   allocs   closures created so far (the next closure's id)              *)
(*   overflow_checks   the build: arithmetic overflow panics (debug) or    *)
(*            wraps (release)                                              *)
(***************************************************************************)
Live(vm) == vm.status = "running"

panic(vm) == [vm EXCEPT !.status = "panicked"]

\* return InterpretResult::r from run
return(vm, r) == IF Live(vm) THEN [vm EXCEPT !.status = "idle", !.result = r] ELSE vm

CallFrame_new(closure, slot) == [closure |-> closure, slot |-> slot, ip |-> 0]

push(vm, value) == IF Live(vm) THEN [vm EXCEPT !.stack = Append(@, value)] ELSE vm

\* returns the VM and the value popped
pop(vm) ==
    IF ~Live(vm) THEN [vm |-> vm, value |-> Nil]
    ELSE IF Len(vm.stack) = 0 THEN [vm |-> panic(vm), value |-> Nil]
    ELSE [vm |-> [vm EXCEPT !.stack = SubSeq(@, 1, Len(@) - 1)],
          value |-> vm.stack[Len(vm.stack)]]

\* returns the VM and the value peeked
peek(vm, distance) ==
    IF ~Live(vm) THEN [vm |-> vm, value |-> Nil]
    ELSE IF Len(vm.stack) - distance - 1 < 0 THEN [vm |-> panic(vm), value |-> Nil]
    ELSE [vm |-> vm, value |-> vm.stack[Len(vm.stack) - distance]]

truncate(stack, len) == IF len < Len(stack) THEN SubSeq(stack, 1, len) ELSE stack

reset_stack(vm) == [vm EXCEPT !.stack = <<>>, !.frames = <<>>]

\* the frame loop of runtime_error!, top frame first; frame.ip - 1 overflows for
\* a frame that has fetched nothing
RECURSIVE runtime_error_trace(_, _)
runtime_error_trace(vm, i) ==
    IF i < 1 THEN vm
    ELSE LET frame == vm.frames[i]
             function == frame.closure.function
             \* the wrapped usize::MAX is past every run of the line table
             instruction == IF frame.ip = 0 THEN Len(function.chunk.code) ELSE frame.ip - 1
             where == IF function.name # "None" THEN function.name \o "()" ELSE "script"
         IN  IF frame.ip = 0 /\ vm.overflow_checks THEN panic(vm)
             ELSE runtime_error_trace(
                      [vm EXCEPT !.stderr = Append(@,
                           "[line " \o NatToStr(Chunk_get_line(function.chunk, instruction))
                           \o "] in " \o where)],
                      i - 1)

\* runtime_error!: the message, the trace, reset_stack
runtime_error(vm, message) ==
    IF ~Live(vm) THEN vm
    ELSE LET traced == runtime_error_trace([vm EXCEPT !.stderr = Append(@, message)],
                                           Len(vm.frames))
         IN  IF Live(traced) THEN reset_stack(traced) ELSE traced

\* a call that does not compare arg_count with the arity
call_any_arity(vm, closure, arg_count) ==
    IF ~Live(vm) THEN [vm |-> vm, ok |-> FALSE]
    ELSE IF Len(vm.frames) > 256
    THEN [vm |-> runtime_error(vm, "Stack overflow"), ok |-> FALSE]
    ELSE IF Len(vm.stack) - arg_count - 1 < 0 THEN [vm |-> panic(vm), ok |-> FALSE]
    ELSE [vm |-> [vm EXCEPT !.frames =
                     Append(@, CallFrame_new(closure, Len(vm.stack) - arg_count - 1))],
          ok |-> TRUE]

\* VM::call; returns the VM and the bool
call(vm, closure, arg_count) ==
    IF ~Live(vm) THEN [vm |-> vm, ok |-> FALSE]
    ELSE IF arg_count # closure.function.arity
    THEN [vm |-> runtime_error(vm, "Expected " \o NatToStr(closure.function.arity)
                                   \o " argument(s) but got " \o NatToStr(arg_count) \o "."),
          ok |-> FALSE]
    ELSE IF Len(vm.frames) > 256
    THEN [vm |-> runtime_error(vm, "Stack overflow"), ok |-> FALSE]
    ELSE IF Len(vm.stack) - arg_count - 1 < 0 THEN [vm |-> panic(vm), ok |-> FALSE]
    ELSE [vm |-> [vm EXCEPT !.frames =
                     Append(@, CallFrame_new(closure, Len(vm.stack) - arg_count - 1))],
          ok |-> TRUE]

allocate_string(vm, s) == [vm EXCEPT !.strings = @ \cup {s}]

\* HashMap::insert, HashMap::remove on globals
Table_insert(table, key, value) ==
    [k \in DOMAIN table \cup {key} |-> IF k = key THEN value ELSE table[k]]

Table_remove(table, key) == [k \in DOMAIN table \ {key} |-> table[k]]

(***************************************************************************)
(* vm.rs: CallFrame's readers, on the top frame.                           *)
(***************************************************************************)
current_frame(vm) == vm.frames[Len(vm.frames)]

\* returns the VM (ip advanced) and the byte
read_byte(vm) ==
    IF ~Live(vm) THEN [vm |-> vm, byte |-> 0]
    ELSE LET frame == current_frame(vm)
             code == frame.closure.function.chunk.code
         IN  IF frame.ip >= Len(code) THEN [vm |-> panic(vm), byte |-> 0]
             ELSE [vm |-> [vm EXCEPT !.frames[Len(vm.frames)].ip = @ + 1],
                   byte |-> code[frame.ip + 1]]

\* returns the VM (ip advanced by two) and the big-endian 16-bit operand
\* a read_short that takes the low byte first
read_short_little(vm) ==
    IF ~Live(vm) THEN [vm |-> vm, short |-> 0]
    ELSE LET frame == current_frame(vm)
             code == frame.closure.function.chunk.code
         IN  IF frame.ip + 1 >= Len(code) THEN [vm |-> panic(vm), short |-> 0]
             ELSE [vm |-> [vm EXCEPT !.frames[Len(vm.frames)].ip = @ + 2],
                   short |-> code[frame.ip + 2] * 256 + code[frame.ip + 1]]

read_short(vm) ==
    IF ~Live(vm) THEN [vm |-> vm, short |-> 0]
    ELSE LET frame == current_frame(vm)
             code == frame.closure.function.chunk.code
         IN  IF frame.ip + 1 >= Len(code) THEN [vm |-> panic(vm), short |-> 0]
             ELSE [vm |-> [vm EXCEPT !.frames[Len(vm.frames)].ip = @ + 2],
                   short |-> code[frame.ip + 1] * 256 + code[frame.ip + 2]]

\* a read_constant that leaves ip on the operand
read_constant_in_place(vm) ==
    IF ~Live(vm) THEN [vm |-> vm, value |-> Nil]
    ELSE LET b == read_byte(vm)
             constants == current_frame(vm).closure.function.chunk.constants
         IN  IF ~Live(b.vm) THEN [vm |-> b.vm, value |-> Nil]
             ELSE IF b.byte >= Len(constants) THEN [vm |-> panic(b.vm), value |-> Nil]
             ELSE [vm |-> vm, value |-> constants[b.byte + 1]]

\* returns the VM and the constant
read_constant(vm) ==
    LET b == read_byte(vm)
        constants == current_frame(vm).closure.function.chunk.constants
    IN  IF ~Live(b.vm) THEN [vm |-> b.vm, value |-> Nil]
        ELSE IF b.byte >= Len(constants) THEN [vm |-> panic(b.vm), value |-> Nil]
        ELSE [vm |-> b.vm, value |-> constants[b.byte + 1]]

(***************************************************************************)
(* vm.rs: VM::run, one operator per arm of the match; vm is the VM after   *)
(* the fetch (ip past the opcode).                                         *)
(***************************************************************************)
\* binary_op!: both pops, then the match; a mismatch returns without runtime_error!
binary_op(vm, value_type, op) ==
    LET b == pop(vm)
        a == pop(b.vm)
    IN  IF a.value.type = "Number" /\ b.value.type = "Number"
        THEN push(a.vm,
                  CASE op = ">" -> Bool(F64Gt(a.value.number, b.value.number))
                    [] op = "<" -> Bool(F64Lt(a.value.number, b.value.number))
                    [] op = "-" -> Number(F64Sub(a.value.number, b.value.number))
                    [] op = "*" -> Number(F64Mul(a.value.number, b.value.number))
                    [] op = "/" -> Number(F64Div(a.value.number, b.value.number)))
        ELSE return(a.vm, "RuntimeError")

run_Constant(vm) == LET c == read_constant(vm) IN push(c.vm, c.value)

run_Nil(vm) == push(vm, Nil)

run_True(vm) == push(vm, Bool(TRUE))

run_False(vm) == push(vm, Bool(FALSE))

run_Pop(vm) == pop(vm).vm

run_GetLocal(vm) ==
    LET b == read_byte(vm)
        slot_index == current_frame(b.vm).slot + b.byte
    IN  IF ~Live(b.vm) THEN b.vm
        ELSE IF slot_index >= Len(b.vm.stack) THEN panic(b.vm)
        ELSE push(b.vm, b.vm.stack[slot_index + 1])

\* the operand indexes the stack itself: the frame's slot base is not added
run_SetLocal(vm) ==
    LET b == read_byte(vm)
        top == peek(b.vm, 0)
    IN  IF ~Live(top.vm) THEN top.vm
        ELSE IF b.byte >= Len(top.vm.stack) THEN panic(top.vm)
        ELSE [top.vm EXCEPT !.stack[b.byte + 1] = top.value]

run_GetGlobal(vm) ==
    LET c == read_constant(vm)
    IN  IF ~Live(c.vm) \/ c.value.type # "String" THEN c.vm
        ELSE IF c.value.string \in DOMAIN c.vm.globals
        THEN push(c.vm, c.vm.globals[c.value.string])
        ELSE return(runtime_error(c.vm, "Undefined variable '" \o c.value.string \o "'."),
                    "RuntimeError")

run_DefineGlobal(vm) ==
    LET c == read_constant(vm)
        top == peek(c.vm, 0)
    IN  IF ~Live(c.vm) \/ c.value.type # "String" THEN c.vm
        ELSE IF ~Live(top.vm) THEN top.vm
        ELSE pop([top.vm EXCEPT
                     !.globals = Table_insert(@, c.value.string, top.value)]).vm

\* a SetGlobal that keeps the key it inserted and goes on: an implicit definition
SetGlobal_upsert(vm, name, value) ==
    [vm EXCEPT !.globals = Table_insert(@, name, value)]

\* insert first; a key that was not there is removed again
SetGlobal_missing(vm, name, value) ==
    return(runtime_error(
               [vm EXCEPT !.globals = Table_remove(Table_insert(@, name, value), name)],
               "Undefined variable '" \o name \o "'."),
           "RuntimeError")

run_SetGlobal(vm) ==
    LET c == read_constant(vm)
        top == peek(c.vm, 0)
    IN  IF ~Live(c.vm) \/ c.value.type # "String" THEN c.vm
        ELSE IF ~Live(top.vm) THEN top.vm
        ELSE IF c.value.string \notin DOMAIN top.vm.globals
        THEN SetGlobal_missing(top.vm, c.value.string, top.value)
        ELSE [top.vm EXCEPT !.globals = Table_insert(@, c.value.string, top.value)]

run_Equal(vm) ==
    LET b == pop(vm)
        a == pop(b.vm)
    IN  push(a.vm, Bool(ValueEq(a.value, b.value)))

run_Greater(vm) == binary_op(vm, "Bool", ">")

run_Less(vm) == binary_op(vm, "Bool", "<")

\* an Add that joins its strings in the order it popped them
run_Add_swapped(vm) ==
    LET b == pop(vm)
        a == pop(b.vm)
    IN  IF a.value.type = "Number" /\ b.value.type = "Number"
        THEN push(a.vm, Number(F64Add(a.value.number, b.value.number)))
        ELSE IF a.value.type = "String" /\ b.value.type = "String"
        THEN push(allocate_string(a.vm, b.value.string \o a.value.string),
                  StringObj_new(b.value.string \o a.value.string))
        ELSE return(runtime_error(a.vm, "Operands must be two numbers or two strings."),
                    "RuntimeError")

run_Add(vm) ==
    LET b == pop(vm)
        a == pop(b.vm)
    IN  IF a.value.type = "Number" /\ b.value.type = "Number"
        THEN push(a.vm, Number(F64Add(a.value.number, b.value.number)))
        ELSE IF a.value.type = "String" /\ b.value.type = "String"
        THEN push(allocate_string(a.vm, a.value.string \o b.value.string),
                  StringObj_new(a.value.string \o b.value.string))
        ELSE return(runtime_error(a.vm, "Operands must be two numbers or two strings."),
                    "RuntimeError")

run_Subtract(vm) == binary_op(vm, "Number", "-")

run_Multiply(vm) == binary_op(vm, "Number", "*")

run_Divide(vm) == binary_op(vm, "Number", "/")

run_Not(vm) == LET v == pop(vm) IN push(v.vm, Bool(is_falsey(v.value)))

\* stack.last_mut().unwrap(), negated in place
run_Negate(vm) ==
    IF Len(vm.stack) = 0 THEN panic(vm)
    ELSE IF vm.stack[Len(vm.stack)].type = "Number"
    THEN [vm EXCEPT !.stack[Len(vm.stack)].number = F64Mul(@, Norm(-1, 1))]
    ELSE return(runtime_error(vm, "Operand must be a number."), "RuntimeError")

run_Print(vm) ==
    LET v == pop(vm)
    IN  IF Live(v.vm) THEN [v.vm EXCEPT !.stdout = Append(@, Display(v.value))] ELSE v.vm

run_Jump(vm) ==
    LET offset == read_short(vm)
    IN  IF Live(offset.vm)
        THEN [offset.vm EXCEPT !.frames[Len(vm.frames)].ip = @ + offset.short]
        ELSE offset.vm

run_JumpIfFalse(vm) ==
    LET offset == read_short(vm)
        top == peek(offset.vm, 0)
    IN  IF Live(top.vm) /\ is_falsey(top.value)
        THEN [top.vm EXCEPT !.frames[Len(vm.frames)].ip = @ + offset.short]
        ELSE top.vm

\* ip -= offset: below zero the subtraction overflows, and no fetch survives the wrap
run_Loop(vm) ==
    LET offset == read_short(vm)
    IN  IF ~Live(offset.vm) THEN offset.vm
        ELSE IF offset.short > current_frame(offset.vm).ip THEN panic(offset.vm)
        ELSE [offset.vm EXCEPT !.frames[Len(vm.frames)].ip = @ - offset.short]

\* what the clock may read when clock_native is called
ClockValues == 0..1

\* clock_native: the milliseconds since the epoch (now), whatever it is given
clock_native(arg_count, args, now) == Num(now)

\* VM::call_value; returns the VM and the bool.  A native is handed the one
\* value peek(arg_count), and the stack is cut to len - arg_count + 1
call_value(vm, callee, arg_count, now) ==
    IF ~Live(vm) THEN [vm |-> vm, ok |-> FALSE]
    ELSE CASE callee.type = "Closure" -> call(vm, callee, arg_count)
           [] callee.type = "NativeFunction" ->
                LET arg == peek(vm, arg_count)
                    result == clock_native(arg_count, <<arg.value>>, now)
                    new_stack_size == Len(vm.stack) - arg_count + 1
                IN  IF ~Live(arg.vm) THEN [vm |-> arg.vm, ok |-> FALSE]
                    ELSE [vm |-> push([vm EXCEPT !.stack = truncate(@, new_stack_size)],
                                      result),
                          ok |-> TRUE]
           [] OTHER ->
                [vm |-> runtime_error(vm, "Can only call functions and classes."),
                 ok |-> FALSE]

run_Call(vm, now) ==
    LET arg_count == read_byte(vm)
        value == peek(arg_count.vm, arg_count.byte)
        called == call_value(value.vm, value.value, arg_count.byte, now)
    IN  IF ~Live(value.vm) THEN value.vm
        ELSE IF called.ok THEN called.vm
        ELSE return(called.vm, "RuntimeError")

\* the constant is wrapped when it is a Function (if let), else nothing is done
run_Closure(vm) ==
    LET c == read_constant(vm)
    IN  IF ~Live(c.vm) THEN c.vm
        ELSE IF c.value.type = "Function"
        THEN push([c.vm EXCEPT !.allocs = @ + 1],
                  Closure_new(c.value.function, c.vm.allocs + 1))
        ELSE c.vm

run_Return(vm) ==
    LET res == pop(vm)
        prev_frame == current_frame(res.vm)
        popped == [res.vm EXCEPT !.frames = SubSeq(@, 1, Len(@) - 1)]
    IN  IF ~Live(res.vm) THEN res.vm
        ELSE IF Len(popped.frames) <= 1 THEN return(pop(popped).vm, "Ok")
        ELSE push([popped EXCEPT !.stack = truncate(@, prev_frame.slot)], res.value)

(***************************************************************************)
(* vm.rs: VM::new and VM::interpret.                                       *)
(***************************************************************************)
\* compile as interpret calls it (one argument, Option<Function>): the
\* Function::new() whose chunk compiler.rs compile fills, None on had_error
compile_function(source) ==
    Let(compile(source, Chunk_new), LAMBDA p :
        [function |-> IF p.had_error THEN "None"
                      ELSE [Function_new EXCEPT !.chunk = p.chunk],
         had_error |-> p.had_error, errors |-> p.errors,
         hung |-> p.hung])

\* VM::new: both stacks empty again after define_native("clock", clock_native)
VM_new(overflow_checks) ==
    [frames |-> <<>>, stack |-> <<>>, strings |-> {},
     globals |-> [k \in {"clock"} |-> NativeFunction_new("clock_native")],
     status |-> "idle", result |-> "None", stdout |-> <<>>, stderr |-> <<>>,
     allocs |-> 0, overflow_checks |-> overflow_checks]

\* VM::interpret up to the call of run; compiled is compile's outcome
interpret(vm, compiled) ==
    LET entered == [vm EXCEPT !.status = "running", !.stdout = <<>>, !.stderr = <<>>]
        function == compiled.function
        closure == Closure_new(function, vm.allocs + 1)
        framed == [entered EXCEPT !.allocs = @ + 1,
                                  !.frames = Append(@, CallFrame_new(closure, 0))]
        pushed == push(pop(push(framed, ObjFunction(function))).vm, closure)
        called == call(pushed, closure, 0)
    IN  IF compiled.hung THEN [entered EXCEPT !.status = "hung"]
        ELSE IF compiled.had_error THEN return(entered, "CompileError")
        \* the bool of call is dropped; run's current_frame().unwrap() needs a frame
        ELSE IF Live(called.vm) /\ Len(called.vm.frames) = 0 THEN panic(called.vm)
        ELSE called.vm

(***************************************************************************)
(* The programs given to interpret.                                        *)
(***************************************************************************)
\* 8 o1 4 o2 2; for two binary operators (a comparison of a comparison is a
\* runtime error and is left to RuntimeErrorSources)
BinaryOps == {"+", "-", "*", "/", "<", "=="}

BinarySource(o1, o2) == "8 " \o o1 \o " 4 " \o o2 \o " 2;"

BinarySources ==
    {BinarySource(o1, o2) : o1 \in BinaryOps, o2 \in BinaryOps} \ {BinarySource("<", "<")}

UnarySources == {"1 + 2 * 3;", "-8 - 4;", "-8 * 4;", "!clock == 1;", "2 > 1;", "2 <= 1;"}

\* A and (clock = 1);   and the same with or
LogicalOperands == {"1 == 2", "1 == 1", "0"}

LogicalSource(a, operator) == a \o " " \o operator \o " (clock = 1);"

AndSources == {LogicalSource(a, "and") : a \in LogicalOperands}

OrSources == {LogicalSource(a, "or") : a \in LogicalOperands}

\* for loops over the global clock, a log: each clause appends its digit (1
\* the initializer, 2 the condition, 3 the body, 4 the increment) to the log
\* read in base 5
ForPrologue == "clock = 0; "

ForLog(digit) == "clock = clock * 5 + " \o digit

ForI == ForLog("1")

\* true as long as the log is below limit
ForC(limit) == "(" \o ForLog("2") \o ") < " \o NatToStr(limit)

ForX == ForLog("4")

ForB == ForLog("3") \o ";"

\* for (I; C; X) B   where C holds n times: the log then has 3n + 2 digits
ForSource(n) ==
    ForPrologue \o "for (" \o ForI \o "; " \o ForC(5 ^ (3 * n + 1)) \o "; " \o ForX
    \o ") " \o ForB

\* for (; C; X) B
ForSourceNoInit(n) ==
    ForPrologue \o "for (; " \o ForC(5 ^ (3 * n)) \o "; " \o ForX \o ") " \o ForB

\* for (I; C;) B
ForSourceNoIncr(n) ==
    ForPrologue \o "for (" \o ForI \o "; " \o ForC(5 ^ (2 * n + 1)) \o ";) " \o ForB

\* iterations the loops of ForSources are written for
MaxIter == 2

ForSources ==
    {ForSource(n) : n \in 0..MaxIter} \cup {ForSourceNoInit(n) : n \in 0..MaxIter}
    \cup {ForSourceNoIncr(n) : n \in 0..MaxIter}

\* one program per way a run can fail at run time
RuntimeErrorSources ==
    {"1 - clock;", "clock < 1;", "clock > 1;", "clock * 1;", "8 / \"a\";", "1 + \"a\";",
     "\"a\" + clock;", "-clock;", "u;", "u = 1;", "8 < 4 < 2;"}

\* programs whose compilation reports an error
CompileErrorSources ==
    {"print 1;", "1 2;", "1 = 2;", "var a = 1;", "1", "(1;", "clock();", "@", "\"a"}

EqualSource ==
    "1 == 1; 1 == 2; \"a\" == \"a\"; \"a\" == \"b\"; 1 == \"1\"; (1 == 1) == (2 == 2); "
    \o "(1 == 1) == (1 == 2); clock == clock; clock == 1; 0 == (1 == 2); "
    \o "\"\" == clock; 1 != 2;"

NotSource == "!(1 == 2); !(1 == 1); !0; !\"\"; !clock; !\"a\"; !!1;"

OtherSources ==
    {"", "1;", "clock = 1; clock = clock + 1;", "\"a\" + \"b\";", "{ 1; { clock; } }",
     "// c\n1.5;\n2 >= 1;", "8 / 0;", "-8 / 0 == 8 / 0;"}

\* if and while statements, their conditions truthy and falsey
BranchSources ==
    {"if (1 == 1) 2;", "if (1 == 2) 2; else 3;", "if (1 == 1) 2; else 3;",
     "while (1 == 2) 3;", "clock = 1; while (clock == 1) clock = 2;"}

Sources ==
    BinarySources \cup UnarySources \cup AndSources \cup OrSources \cup ForSources
    \cup BranchSources
    \cup RuntimeErrorSources \cup CompileErrorSources
    \cup {EqualSource, NotSource} \cup OtherSources

\* compile's outcome for every program of Sources
Compiled == [s \in Sources |-> compile_function(s)]

(***************************************************************************)
(* The state: the VM's fields, and what an observer of the process keeps.  *)
(***************************************************************************)
VARIABLES
    frames, stack, strings, globals,   \* the fields of the VM
    status, result,                    \* where the process is, what the last call returned
    stdout, stderr,                    \* what the current call has written
    allocs, overflow_checks,           \* closures created; the build
    calls, steps,                      \* interpret calls made; instructions of this call
    source, report,                    \* the program of the current call, compile's report
    fresh,                             \* the current call found both stacks empty
    trace, last_op,                    \* the offsets fetched in this call; the last opcode
    scanner, tokens,                   \* a Scanner on its own, the tokens it has returned
    chunk, written,                    \* a Chunk on its own, the lines of its writes
    parser, ended,                     \* a Parser on its own; its compile has returned
    object,                            \* a StringObj on its own
    marks                              \* the jumps and loops of a Parser on its own

\* the VM and its observer
vmvars == <<frames, stack, strings, globals, status, result, stdout, stderr, allocs,
            overflow_checks, calls, steps, source, report, fresh, trace, last_op>>

\* the parts taken on their own
unitvars == <<scanner, tokens, chunk, written, parser, ended, object, marks>>

vars == <<vmvars, unitvars>>

\* the VM as the operators take it
VMState ==
    [frames |-> frames, stack |-> stack, strings |-> strings, globals |-> globals,
     status |-> status, result |-> result, stdout |-> stdout, stderr |-> stderr,
     allocs |-> allocs, overflow_checks |-> overflow_checks]

\* the VM as an operator leaves it
Commit(vm) ==
    /\ frames' = vm.frames
    /\ stack' = vm.stack
    /\ strings' = vm.strings
    /\ globals' = vm.globals
    /\ status' = vm.status
    /\ result' = vm.result
    /\ stdout' = vm.stdout
    /\ stderr' = vm.stderr
    /\ allocs' = vm.allocs
    /\ overflow_checks' = vm.overflow_checks

\* the VM is vm
IsVM(vm) ==
    /\ frames = vm.frames
    /\ stack = vm.stack
    /\ strings = vm.strings
    /\ globals = vm.globals
    /\ status = vm.status
    /\ result = vm.result
    /\ stdout = vm.stdout
    /\ stderr = vm.stderr
    /\ allocs = vm.allocs
    /\ overflow_checks = vm.overflow_checks

\* no part is taken on its own
UnitIdle ==
    /\ scanner = Scanner_new("")
    /\ tokens = <<>>
    /\ chunk = Chunk_new
    /\ written = <<>>
    /\ parser = Parser_new("", Chunk_new)
    /\ ended = FALSE
    /\ object = StringObj_new("")
    /\ marks = <<>>

\* no call of interpret has been made
NoCall ==
    /\ calls = 0
    /\ steps = 0
    /\ source = ""
    /\ report = [had_error |-> FALSE, errors |-> <<>>]
    /\ fresh = TRUE
    /\ trace = <<>>
    /\ last_op = -1

\* a VM that is built and never called
VMIdle == IsVM(VM_new(FALSE)) /\ NoCall

\* a process that has just built its VM, in a debug or a release build
Init ==
    /\ UnitIdle
    /\ \E build \in BOOLEAN : IsVM(VM_new(build))
    /\ NoCall

(***************************************************************************)
(* The actions: a call of interpret, and one per arm of run's match.       *)
(***************************************************************************)
\* VM::interpret, from the call to the first fetch of run (or to its return)
InterpretSource(s, compiled) ==
    /\ Commit(interpret(VMState, compiled))
    /\ source' = s
    /\ report' = [had_error |-> compiled.had_error, errors |-> compiled.errors]

Interpret ==
    /\ status = "idle"
    /\ calls < MaxCalls
    /\ \E s \in Sources : InterpretSource(s, Compiled[s])
    /\ fresh' = (frames = <<>> /\ stack = <<>>)
    /\ calls' = calls + 1
    /\ steps' = 0
    /\ trace' = <<>>
    /\ last_op' = -1
    /\ UNCHANGED unitvars

\* run is about to execute the instruction op: its fetch succeeds
Fetched(op) ==
    /\ status = "running"
    /\ steps < MaxSteps
    /\ Live(read_byte(VMState).vm)
    /\ read_byte(VMState).byte = op

\* what one turn of run's loop leaves of the observer's variables
Stepped(op) ==
    /\ steps' = steps + 1
    /\ trace' = Append(trace, current_frame(VMState).ip)
    /\ last_op' = op
    /\ UNCHANGED <<calls, source, report, fresh>>
    /\ UNCHANGED unitvars

\* one turn of run's loop: the fetch, then the arm of the opcode fetched
Op_Constant ==
    /\ Fetched(OpCode.Constant)
    /\ Commit(run_Constant(read_byte(VMState).vm))
    /\ Stepped(OpCode.Constant)

Op_Nil ==
    /\ Fetched(OpCode.Nil)
    /\ Commit(run_Nil(read_byte(VMState).vm))
    /\ Stepped(OpCode.Nil)

Op_True ==
    /\ Fetched(OpCode.True)
    /\ Commit(run_True(read_byte(VMState).vm))
    /\ Stepped(OpCode.True)

Op_False ==
    /\ Fetched(OpCode.False)
    /\ Commit(run_False(read_byte(VMState).vm))
    /\ Stepped(OpCode.False)

Op_Pop ==
    /\ Fetched(OpCode.Pop)
    /\ Commit(run_Pop(read_byte(VMState).vm))
    /\ Stepped(OpCode.Pop)

Op_GetLocal ==
    /\ Fetched(OpCode.GetLocal)
    /\ Commit(run_GetLocal(read_byte(VMState).vm))
    /\ Stepped(OpCode.GetLocal)

Op_SetLocal ==
    /\ Fetched(OpCode.SetLocal)
    /\ Commit(run_SetLocal(read_byte(VMState).vm))
    /\ Stepped(OpCode.SetLocal)

Op_GetGlobal ==
    /\ Fetched(OpCode.GetGlobal)
    /\ Commit(run_GetGlobal(read_byte(VMState).vm))
    /\ Stepped(OpCode.GetGlobal)

Op_DefineGlobal ==
    /\ Fetched(OpCode.DefineGlobal)
    /\ Commit(run_DefineGlobal(read_byte(VMState).vm))
    /\ Stepped(OpCode.DefineGlobal)

Op_Equal ==
    /\ Fetched(OpCode.Equal)
    /\ Commit(run_Equal(read_byte(VMState).vm))
    /\ Stepped(OpCode.Equal)

Op_SetGlobal ==
    /\ Fetched(OpCode.SetGlobal)
    /\ Commit(run_SetGlobal(read_byte(VMState).vm))
    /\ Stepped(OpCode.SetGlobal)

Op_Greater ==
    /\ Fetched(OpCode.Greater)
    /\ Commit(run_Greater(read_byte(VMState).vm))
    /\ Stepped(OpCode.Greater)

Op_Less ==
    /\ Fetched(OpCode.Less)
    /\ Commit(run_Less(read_byte(VMState).vm))
    /\ Stepped(OpCode.Less)

Op_Add ==
    /\ Fetched(OpCode.Add)
    /\ Commit(run_Add(read_byte(VMState).vm))
    /\ Stepped(OpCode.Add)

Op_Subtract ==
    /\ Fetched(OpCode.Subtract)
    /\ Commit(run_Subtract(read_byte(VMState).vm))
    /\ Stepped(OpCode.Subtract)

Op_Multiply ==
    /\ Fetched(OpCode.Multiply)
    /\ Commit(run_Multiply(read_byte(VMState).vm))
    /\ Stepped(OpCode.Multiply)

Op_Divide ==
    /\ Fetched(OpCode.Divide)
    /\ Commit(run_Divide(read_byte(VMState).vm))
    /\ Stepped(OpCode.Divide)

Op_Not ==
    /\ Fetched(OpCode.Not)
    /\ Commit(run_Not(read_byte(VMState).vm))
    /\ Stepped(OpCode.Not)

Op_Negate ==
    /\ Fetched(OpCode.Negate)
    /\ Commit(run_Negate(read_byte(VMState).vm))
    /\ Stepped(OpCode.Negate)

Op_Print ==
    /\ Fetched(OpCode.Print_)
    /\ Commit(run_Print(read_byte(VMState).vm))
    /\ Stepped(OpCode.Print_)

Op_Jump ==
    /\ Fetched(OpCode.Jump)
    /\ Commit(run_Jump(read_byte(VMState).vm))
    /\ Stepped(OpCode.Jump)

Op_JumpIfFalse ==
    /\ Fetched(OpCode.JumpIfFalse)
    /\ Commit(run_JumpIfFalse(read_byte(VMState).vm))
    /\ Stepped(OpCode.JumpIfFalse)

Op_Loop ==
    /\ Fetched(OpCode.Loop)
    /\ Commit(run_Loop(read_byte(VMState).vm))
    /\ Stepped(OpCode.Loop)

Op_Call ==
    /\ Fetched(OpCode.Call)
    /\ \E now \in ClockValues : Commit(run_Call(read_byte(VMState).vm, now))
    /\ Stepped(OpCode.Call)

Op_Closure ==
    /\ Fetched(OpCode.Closure)
    /\ Commit(run_Closure(read_byte(VMState).vm))
    /\ Stepped(OpCode.Closure)

\* the arm _ => (): try_into gave Err(()), nothing is done and the loop goes on
Op_Invalid ==
    /\ status = "running"
    /\ steps < MaxSteps
    /\ Live(read_byte(VMState).vm)
    /\ ~OpCode_try_from(read_byte(VMState).byte).ok
    /\ Commit(read_byte(VMState).vm)
    /\ Stepped(read_byte(VMState).byte)

Op_Return ==
    /\ Fetched(OpCode.Return)
    /\ Commit(run_Return(read_byte(VMState).vm))
    /\ Stepped(OpCode.Return)

Next ==
    \/ Interpret
    \/ Op_Constant \/ Op_Pop \/ Op_GetGlobal \/ Op_SetGlobal
    \/ Op_Equal \/ Op_Greater \/ Op_Less
    \/ Op_Add \/ Op_Subtract \/ Op_Multiply \/ Op_Divide
    \/ Op_Not \/ Op_Negate
    \/ Op_Return

Spec == Init /\ [][Next]_vars

\* the opcodes the compiler of src emits for what the scanner of src hands it
\* (no keyword is ever scanned, and there is no rule for a call)
Emitted ==
    {OpCode.Constant, OpCode.Pop, OpCode.GetGlobal, OpCode.SetGlobal, OpCode.Equal,
     OpCode.Greater, OpCode.Less, OpCode.Add, OpCode.Subtract, OpCode.Multiply,
     OpCode.Divide, OpCode.Not, OpCode.Negate, OpCode.Return}

\* run stays inside this model: every fetch is inside the chunk, of one of the
\* opcodes of Emitted, and no program of Sources runs for MaxSteps instructions
RunIsModelled ==
    status = "running" =>
        /\ frames # <<>>
        /\ steps < MaxSteps
        /\ Live(read_byte(VMState).vm)
        /\ read_byte(VMState).byte \in Emitted

(***************************************************************************)
(* The properties.  A call has returned when status is "idle" again; the   *)
(* step of an opcode is the step that fetches it (steps grows by one).     *)
(***************************************************************************)
\* the current call is of the program s
Running(s) == calls > 0 /\ source = s

\* the step that executes the instruction op
StepOf(op) == Fetched(op) /\ steps' = steps + 1

\* the value on top of the stack
Top == stack[Len(stack)]

\* the stack without its n topmost values
Below(n) == SubSeq(stack, 1, Len(stack) - n)

\* the string constant the instruction about to execute names
OperandName == read_constant(read_byte(VMState).vm).value.string

\* the chunk the current call runs, in the frame interpret pushed first
ScriptCode == frames[1].closure.function.chunk.code

\* C1: a run that comes to the Return ending the script returns Ok, and the
\* value stack is empty then (every push was balanced).  Fails: no call returns
\* Ok, the second pop of Return finds the stack empty (1;).
C1_OkLeavesStackEmpty ==
    (last_op = OpCode.Return /\ status # "running") =>
        (status = "idle" /\ result = "Ok" /\ stack = <<>>)

\* C2: a call that returns RuntimeError has cleared the value stack and the
\* frame stack.  Fails: binary_op! returns without runtime_error! (1 - clock;).
C2_RuntimeErrorClearsStacks ==
    (status = "idle" /\ result = "RuntimeError") => (stack = <<>> /\ frames = <<>>)

\* C3: SetGlobal never changes the set of global names; on a name that is
\* there it stores the top of the stack and goes on, on a name that is not it
\* leaves globals as they were, writes Undefined variable 'X'. and ends the run.
C3_SetGlobalNeverDefines ==
    [][(StepOf(OpCode.SetGlobal) /\ stack # <<>>) =>
          /\ DOMAIN globals' = DOMAIN globals
          /\ IF OperandName \in DOMAIN globals
             THEN /\ globals' = [globals EXCEPT ![OperandName] = Top]
                  /\ status' = "running"
                  /\ stderr' = stderr
                  /\ stack' = stack
             ELSE /\ globals' = globals
                  /\ status' # "running"
                  /\ Len(stderr') > Len(stderr)
                  /\ stderr'[Len(stderr) + 1]
                         = "Undefined variable '" \o OperandName \o "'."]_vars

\* u = 1; has run to its SetGlobal: the error is written and u is no global
C3_Witness ==
    /\ Running("u = 1;")
    /\ last_op = OpCode.SetGlobal
    /\ status # "running"
    /\ stderr # <<>>
    /\ stderr[1] = "Undefined variable 'u'."
    /\ "u" \notin DOMAIN globals

\* C4: a call whose compilation reported an error has returned CompileError
\* without executing an instruction.  Fails: after the error of 1 2; the
\* compiler never leaves synchronize, and the call never returns.
C4_CompileErrorReturns ==
    (calls > 0 /\ report.had_error) =>
        (status = "idle" /\ result = "CompileError" /\ steps = 0)

\* the value an operand of LogicalOperands has
LiteralValue(a) ==
    CASE a = "1 == 2" -> Bool(FALSE)
      [] a = "1 == 1" -> Bool(TRUE)
      [] a = "0" -> Num(0)

\* falsey as the text has it: nil and false, nothing else
Falsey(v) == v = Nil \/ v = Bool(FALSE)

\* A operator (clock = 1);  with what the text expects of it: whether A decides
\* alone, and the value of the expression
LogicalCase(a, operator) ==
    LET short == IF operator = "and" THEN Falsey(LiteralValue(a))
                 ELSE ~Falsey(LiteralValue(a))
    IN  [source |-> LogicalSource(a, operator), short |-> short,
         value |-> IF short THEN LiteralValue(a) ELSE Num(1)]

LogicalCases == {LogicalCase(a, operator) : a \in LogicalOperands, operator \in {"and", "or"}}

\* C5: a and b with a falsey is a, a or b with a truthy is a, and none of b's
\* instructions is executed then (the assignment b makes is not made); otherwise
\* the result is b's value.  Either way the expression leaves exactly one value on
\* the stack (above the script's closure) for the Pop of its statement.  Fails:
\* and and or are scanned as identifiers (C19), the statement does not compile
\* and the call never returns.
C5_ShortCircuit ==
    \A c \in LogicalCases :
        (Running(c.source) /\ fresh) =>
            /\ ~report.had_error
            /\ status \in {"running", "idle"}
            /\ c.short => globals["clock"] # Num(1)
            /\ Fetched(OpCode.Pop) => (Len(stack) = 2 /\ Top = c.value)

RECURSIVE Repeat(_, _)
Repeat(seq, n) == IF n = 0 THEN <<>> ELSE seq \o Repeat(seq, n - 1)

\* the log after the clauses of digits have run in that order
RECURSIVE EncodeLog(_)
EncodeLog(digits) ==
    IF digits = <<>> THEN 0
    ELSE EncodeLog(SubSeq(digits, 1, Len(digits) - 1)) * 5 + digits[Len(digits)]

\* I, then (C, B, X) n times, then the C that fails; init and incr are the
\* digits of the clauses the loop has
ForOrder(init, incr, n) == init \o Repeat(<<2, 3>> \o incr, n) \o <<2>>

\* a loop of ForSources with the order the text expects of its clauses: the
\* values the log may take on the way, and the one it ends with
ForCase(s, expected) ==
    [source |-> s,
     logs |-> {Num(EncodeLog(SubSeq(expected, 1, k))) : k \in 0..Len(expected)},
     final |-> Num(EncodeLog(expected))]

ForCases ==
    {ForCase(ForSource(n), ForOrder(<<1>>, <<4>>, n)) : n \in 0..MaxIter}
    \cup {ForCase(ForSourceNoInit(n), ForOrder(<<>>, <<4>>, n)) : n \in 0..MaxIter}
    \cup {ForCase(ForSourceNoIncr(n), ForOrder(<<1>>, <<>>, n)) : n \in 0..MaxIter}

\* C6: for (I; C; X) B runs I once, then C, B, X in that order as long as C is
\* truthy, and leaves at the first falsey C; a loop without I or without X
\* runs the same order without that clause.  The log is always a beginning of
\* that order, and the whole of it when the run comes to its last Return.
\* Fails: for is scanned as an identifier (C19), the statement does not compile
\* and the call never returns.
C6_ForOrder ==
    \A c \in ForCases :
        (Running(c.source) /\ fresh) =>
            /\ ~report.had_error
            /\ status \in {"running", "idle"}
            /\ globals["clock"].type = "Number" => globals["clock"] \in c.logs
            /\ last_op = OpCode.Return => globals["clock"] = c.final

\* the level of a binary operator as the text has it: equality, comparison,
\* term, factor
Level(o) ==
    CASE o = "==" -> 4
      [] o = "<" -> 5
      [] o \in {"+", "-"} -> 6
      [] o \in {"*", "/"} -> 7

Apply(o, x, y) ==
    CASE o = "==" -> Bool(x = y)
      [] o = "<" -> Bool(F64Lt(x.number, y.number))
      [] o = "+" -> Number(F64Add(x.number, y.number))
      [] o = "-" -> Number(F64Sub(x.number, y.number))
      [] o = "*" -> Number(F64Mul(x.number, y.number))
      [] o = "/" -> Number(F64Div(x.number, y.number))

\* the opcode of a binary operator of BinaryOps
OpOf(o) ==
    CASE o = "==" -> OpCode.Equal
      [] o = "<" -> OpCode.Less
      [] o = "+" -> OpCode.Add
      [] o = "-" -> OpCode.Subtract
      [] o = "*" -> OpCode.Multiply
      [] o = "/" -> OpCode.Divide

\* 8 o1 4 o2 2 read with the tighter operator first, left to right at a tie
Grouped(o1, o2) ==
    IF Level(o2) > Level(o1)
    THEN Apply(o1, Num(8), Apply(o2, Num(4), Num(2)))
    ELSE Apply(o2, Apply(o1, Num(8), Num(4)), Num(2))

\* the code of 8 o1 4 o2 2; with every operator after its operands
Postfix(o1, o2) ==
    IF Level(o2) > Level(o1)
    THEN <<OpCode.Constant, 0, OpCode.Constant, 1, OpCode.Constant, 2, OpOf(o2), OpOf(o1),
           OpCode.Pop, OpCode.Return>>
    ELSE <<OpCode.Constant, 0, OpCode.Constant, 1, OpOf(o1), OpCode.Constant, 2, OpOf(o2),
           OpCode.Pop, OpCode.Return>>

\* the programs of BinarySources with their code and their value
BinaryCases ==
    {[source |-> BinarySource(o1, o2), code |-> Postfix(o1, o2), value |-> Grouped(o1, o2)] :
        <<o1, o2>> \in (BinaryOps \X BinaryOps) \ {<<"<", "<">>}}

\* programs of UnarySources with their value
UnaryCases ==
    {[source |-> "1 + 2 * 3;", value |-> Num(7)],
     [source |-> "-8 - 4;", value |-> Num(-12)],
     [source |-> "-8 * 4;", value |-> Num(-32)],
     [source |-> "!clock == 1;", value |-> Bool(FALSE)]}

\* C7: binary operators of one level group to the left, an operator of a
\* higher level binds tighter, and every operator's opcode follows the code of
\* its operands: the value of 8 o1 4 o2 2 (on the stack when the statement's Pop
\* is fetched) is that of this grouping, 1 + 2 * 3 is 7, and a unary operator
\* binds tighter than any binary.
C7_Grouping ==
    /\ \A c \in BinaryCases :
           (Running(c.source) /\ fresh /\ frames # <<>>) =>
               /\ ScriptCode = c.code
               /\ Fetched(OpCode.Pop) => (Len(stack) = 2 /\ Top = c.value)
    /\ \A c \in UnaryCases :
           (Running(c.source) /\ fresh /\ Fetched(OpCode.Pop)) =>
               (Len(stack) = 2 /\ Top = c.value)

\* 8 - 4 - 2 has been evaluated as (8 - 4) - 2
C7_Witness ==
    /\ Running(BinarySource("-", "-"))
    /\ fresh
    /\ Fetched(OpCode.Pop)
    /\ Top = Num(2)

\* the value under the top of the stack
Second == stack[Len(stack) - 1]

\* C8: Add pops b, then a.  Two numbers: it pushes their sum; two strings: it
\* pushes a followed by b; anything else: it writes Operands must be two numbers
\* or two strings. and the run ends.  A successful Add lowers the stack by one.
C8_Add ==
    [][(StepOf(OpCode.Add) /\ Len(stack) >= 2) =>
          CASE Second.type = "Number" /\ Top.type = "Number" ->
                 /\ stack' = Append(Below(2), Number(F64Add(Second.number, Top.number)))
                 /\ (Second.number.den = 1 /\ Top.number.den = 1) =>
                        stack'[Len(stack')] = Num(Second.number.num + Top.number.num)
                 /\ Len(stack') = Len(stack) - 1
                 /\ status' = "running"
            [] Second.type = "String" /\ Top.type = "String" ->
                 /\ stack' = Append(Below(2), StringObj_new(Second.string \o Top.string))
                 /\ Len(stack') = Len(stack) - 1
                 /\ status' = "running"
            [] OTHER ->
                 /\ status' # "running"
                 /\ Len(stderr') > Len(stderr)
                 /\ stderr'[Len(stderr) + 1] = "Operands must be two numbers or two strings."
      ]_vars

\* "a" + "b" has been added: ab is on the stack, above the script's closure
C8_Witness ==
    /\ Running("\"a\" + \"b\";")
    /\ fresh
    /\ last_op = OpCode.Add
    /\ status = "running"
    /\ Len(stack) = 2
    /\ Top = StringObj_new("ab")

\* equality as the text has it: same variant and equal payload, a closure
\* being equal to itself only (id names the object)
Identical(a, b) ==
    /\ a.type = b.type
    /\ CASE a.type = "Nil" -> TRUE
         [] a.type = "Bool" -> a.bool = b.bool
         [] a.type = "Number" -> F64Eq(a.number, b.number)
         [] a.type = "String" -> a.string = b.string
         [] a.type = "Closure" -> a.id = b.id
         [] OTHER -> a = b

C34_ConditionPopped ==
    \A s \in BranchSources :
        (Running(s) /\ fresh) =>
            /\ ~report.had_error
            /\ status \in {"running", "idle"}
            /\ (status = "running" /\ last_op = OpCode.JumpIfFalse) =>
                   (Len(stack) = 2 /\ Top.type = "Bool")
            /\ Fetched(OpCode.Return) => Len(stack) = 1

\* C14: a Return executed while the frame stack holds more than one frame
\* pops the result and the frame, cuts the value stack down to the slot base
\* of the popped frame, pushes the result back, and the run goes on in the
\* frame below.  Fails: with one frame left after the pop (frames.len() <= 1)
\* Return pops once more and ends the run (1;).
C14_ReturnToCaller ==
    [][(StepOf(OpCode.Return) /\ Len(frames) >= 2 /\ stack # <<>>) =>
          /\ frames' = SubSeq(frames, 1, Len(frames) - 1)
          /\ stack' = Append(SubSeq(stack, 1, current_frame(VMState).slot), Top)
          /\ status' = "running"]_vars

\* C15: a call of interpret on empty stacks starts its run with exactly one
\* frame, the script's (slot 0, ip 0), whose closure is the one value of the
\* stack.  Fails: interpret pushes a frame itself and then calls call, which
\* pushes another (1;).
C15_OneScriptFrame ==
    (fresh /\ status = "running" /\ steps = 0) =>
        /\ Len(frames) = 1
        /\ frames[1].slot = 0
        /\ frames[1].ip = 0
        /\ stack = <<frames[1].closure>>

\* C16: every call of a sequence of calls on one VM starts from an empty value
\* stack and an empty frame stack, and leaves them empty when it returns.
\* Fails: the call of 1 - clock; returns RuntimeError with two frames and a
\* value left (C2), and the next call starts on them.
C16_CallsStartEmpty ==
    /\ calls > 0 => fresh
    /\ (calls > 0 /\ status = "idle") => (stack = <<>> /\ frames = <<>>)

(***************************************************************************)
(* chunk.rs on its own: a Chunk that is written to, byte after byte.       *)
(***************************************************************************)
ChunkInit ==
    /\ VMIdle
    /\ scanner = Scanner_new("")
    /\ tokens = <<>>
    /\ parser = Parser_new("", Chunk_new)
    /\ ended = FALSE
    /\ object = StringObj_new("")
    /\ marks = <<>>
    /\ chunk = Chunk_new
    /\ written = <<>>

\* Chunk::write(byte, line)
ChunkWrite ==
    /\ Len(written) < MaxWrites
    /\ \E byte \in {OpCode.Constant, 255}, line \in 0..MaxLine :
           /\ chunk' = Chunk_write(chunk, byte, line)
           /\ written' = Append(written, line)
    /\ UNCHANGED <<vmvars, scanner, tokens, parser, ended, object, marks>>

ChunkNext == ChunkWrite

ChunkSpec == ChunkInit /\ [][ChunkNext]_vars

\* C17: after any sequence of writes, get_line of every offset of the code is
\* the line given to the write of that offset, whatever the order of the lines.
C17_GetLine ==
    /\ Len(chunk.code) = Len(written)
    /\ \A i \in 0..(Len(written) - 1) : Chunk_get_line(chunk, i) = written[i + 1]

\* four writes on the lines 2, 2, 1, 2: three runs, the line 2 in two of them
C17_Witness ==
    /\ written = <<2, 2, 1, 2>>
    /\ Len(chunk.lines) = 3
    /\ Chunk_get_line(chunk, 3) = 2

(***************************************************************************)
(* scanner.rs on its own: a Scanner asked for its tokens, up to Eof.       *)
(***************************************************************************)
\* the 16 keywords and their token types
Keyword ==
    [and |-> "And", class |-> "Class", else |-> "Else", false |-> "False", for |-> "For",
     fun |-> "Fun", if |-> "If", nil |-> "Nil", or |-> "Or", print |-> "Print",
     return |-> "Return", super |-> "Super", this |-> "This", true |-> "True",
     var |-> "Var", while |-> "While"]

\* what may follow a word in a source
Followers == {"", " x", ";", "(1)", "\n", "+f", "=t"}

\* identifiers that are no keyword
Names == {"x", "_a1", "fo", "f", "t", "andy", "Print", "nile", "tr", "fals"}

\* a block comment, then the number n
Commented(comment, n) == comment \o " " \o n

BlockComments == {"/* c */", "/* a /* b */ c */", "/* a\nb */", "/**/", "/* a\n/* b\n*/\n*/"}

\* sources with a char that is not ASCII: alone, in a string, in a comment,
\* before a token
Accented == {"é", "\"é\"", "// é\n1", "é/x", "1 é"}

ScanSources ==
    {word \o f : word \in DOMAIN Keyword \cup Names, f \in Followers}
    \cup {Commented(c, "7") : c \in BlockComments}
    \cup {"1 // c\n2", "1 / 2", "8 /*", "\"a\nb\" 1.5 1. !=<=>===<>!", "@ \"a"}
    \cup Accented

\* calls of scan_token made after the one that returned the first Eof
MaxEofs == 2

ScanInit ==
    /\ VMIdle
    /\ chunk = Chunk_new
    /\ written = <<>>
    /\ parser = Parser_new("", Chunk_new)
    /\ ended = FALSE
    /\ object = StringObj_new("")
    /\ marks = <<>>
    /\ \E s \in ScanSources : scanner = Scanner_new(s)
    /\ tokens = <<>>

\* Scanner::scan_token, called until it has returned Eof, and MaxEofs times more
ScanToken ==
    /\ Cardinality({i \in 1..Len(tokens) : tokens[i].type = "Eof"}) <= MaxEofs
    /\ ~scanner.panicked
    /\ scanner' = scan_token(scanner).scanner
    /\ tokens' = IF scan_token(scanner).scanner.panicked THEN tokens
                  ELSE Append(tokens, scan_token(scanner).token)
    /\ UNCHANGED <<vmvars, chunk, written, parser, ended, object, marks>>

ScanNext == ScanToken

ScanSpec == ScanInit /\ [][ScanNext]_vars

\* lexeme is made of letters, digits and underscores and begins with none of the digits
IsWord(lexeme) ==
    /\ lexeme # ""
    /\ is_alpha(nth(lexeme, 0))
    /\ \A i \in 0..(Len(lexeme) - 1) : is_alpha(nth(lexeme, i)) \/ nth(lexeme, i) \in AsciiDigit

\* C19: a token whose lexeme is a word has the keyword's type when the lexeme
\* is one of the 16 keywords, whatever follows it in the source, and the type
\* Identifier otherwise.  Fails: the keyword print, before a space, the end of
\* the source or anything else, is returned as an Identifier.
C19_Keywords ==
    \A i \in 1..Len(tokens) :
        IsWord(tokens[i].lexeme) =>
            tokens[i].type = IF tokens[i].lexeme \in DOMAIN Keyword
                             THEN Keyword[tokens[i].lexeme]
                             ELSE "Identifier"

\* C20: a block comment, nested ones included, gives no token: the first token
\* of a source that begins with one is the number after it, on line 1 plus the
\* newlines of the comment.  Fails: the comment's characters are returned as
\* tokens, the first a Slash.
C20_BlockComments ==
    \A c \in BlockComments :
        (scanner.source = Commented(c, "7") /\ tokens # <<>>) =>
            /\ tokens[1].type = "Number"
            /\ tokens[1].lexeme = "7"
            /\ tokens[1].line
                   = 1 + Cardinality({i \in 0..(Len(c) - 1) : nth(c, i) = "\n"})

\* C21: no call of scan_token panics, whatever the source (a char that is no
\* token's is returned as an Error token), and every call made after one that
\* returned Eof returns Eof.  Fails: after the Error token of a char of two
\* bytes the next call panics, current being short of the byte length with no
\* char left (é).
C21_ScanNeverPanics ==
    /\ ~scanner.panicked
    /\ \A i \in 1..(Len(tokens) - 1) : tokens[i].type = "Eof" => tokens[i + 1].type = "Eof"

(***************************************************************************)
(* compiler.rs on its own: compile, one turn of its loop at a time.        *)
(***************************************************************************)
\* the string s, n times
RECURSIVE Times(_, _)
Times(s, n) ==
    IF n = 0 THEN ""
    ELSE IF n % 2 = 0 THEN Let(Times(s, n \div 2), LAMBDA half : half \o half)
    ELSE s \o Times(s, n - 1)

\* programs that declare locals and read them
OwnInitializer == "{ var a = a; }"

Shadowed == "{ var a = 1; { var a = 2; a; } }"

Redeclared == "{ var a = 1; var a = 2; }"

ShadowedGlobal == "var a = 1; { var a = 2; }"

\* blocks with the locals they declare and their expression statements
BlockCase(s, locals, statements) ==
    [source |-> s, locals |-> locals, statements |-> statements]

BlockCases ==
    {BlockCase("{ var a = 1; var b = 2; }", 2, 0),
     BlockCase("{ var a = 1; { var b = 2; } }", 2, 0),
     BlockCase("{ var a; }", 1, 0), BlockCase("{ 1; { 2; } }", 0, 2), BlockCase("{ }", 0, 0)}

LocalSources ==
    {OwnInitializer, Shadowed, Redeclared, ShadowedGlobal, "{ a; }"}
    \cup {c.source : c \in BlockCases}

\* programs with an = after an expression, and assignments to a name
InvalidTargets == {"1 = 2;", "a * b = c;", "(a) = 1;", "-a = 1;", "a + b = c;", "\"s\" = 1;",
                   "a = b * c = d;"}

Assignments == {"a = 1;", "a = b = 2;", "a = b * c;", "a = (b = 1);"}

AssignmentSources == InvalidTargets \cup Assignments

\* programs with a token that has no prefix rule where an operand is expected
MissingOperands == {"+;", "1 + ;", "()", ";", "(1 + );", "1 *", "-;", "!", "1 == ;",
                    "{ ; }", "1 + + 2;", "= 1;", "1; )", "2; ;", ");"}

OperandSources == MissingOperands \cup {"1 + 2;", "(1);", "-1;", "1 2;", "1 2"}

\* programs with more than one error: reported, or not for being in panic mode
PanicSources == {"1 + ; 2", "@ @ 1;", "@ 1; @", "1 + ; @ 2 + ; 3", "@", "1 + ; 2;", "1 @"}

\* programs of n statements with one constant each: numbers, strings, names
\* programs of several lines: an operator and its operands on different lines,
\* empty lines, a string and a block comment with a line break inside
LineSources ==
    {"1 +\n2;\n\n3;", "1;\n2;\n3;", "\"a\nb\";\n1 ==\n2;", "/* a\nb */ 1;\n-\n2;",
     "1\n+ 2 *\n3\n;", "1 <=\n2;"}

CompileSources ==
    {Times("0;", n) : n \in {0, 1, MaxStatements}}
    \cup {Times("\"a\";", MaxStatements - 1) \o "clock;"}
    \cup {Times("clock = 1;", 128) \o "2", "1 +; 2;"}
    \cup LocalSources \cup AssignmentSources \cup OperandSources \cup PanicSources
    \cup LineSources

\* compile up to its loop: the Parser after its first advance
CompileInit ==
    /\ VMIdle
    /\ scanner = Scanner_new("")
    /\ tokens = <<>>
    /\ chunk = Chunk_new
    /\ written = <<>>
    /\ \E s \in CompileSources : parser = advance(Parser_new(s, Chunk_new))
    /\ ended = FALSE
    /\ object = StringObj_new("")
    /\ marks = <<>>

\* one turn of the loop of compile: matches(Eof) fails, declaration is called
Declaration ==
    /\ ~ended
    /\ ~parser.hung
    /\ ~check(parser, "Eof")
    /\ parser' = declaration(parser)
    /\ UNCHANGED <<vmvars, scanner, tokens, chunk, written, ended, object, marks>>

\* the end of compile: matches(Eof) advances, then consume and end_compiler
EndCompile ==
    /\ ~ended
    /\ ~parser.hung
    /\ check(parser, "Eof")
    /\ parser' = end_compiler(consume(advance(parser), "Eof", "Expect end of expression."))
    /\ ended' = TRUE
    /\ UNCHANGED <<vmvars, scanner, tokens, chunk, written, object, marks>>

CompileNext == Declaration \/ EndCompile

CompileSpec == CompileInit /\ [][CompileNext]_vars

\* C18: the constant pool of a chunk never holds more than 256 values, and a
\* program that asks for more is refused with Too many constants in one chunk.
\* Fails: the 257th constant is added to the pool before its index is looked
\* at, and the message written is another.
C18_ConstantPool ==
    /\ Len(parser.chunk.constants) <= 256
    /\ parser.had_error =>
           \E i \in 1..Len(parser.errors) :
               parser.errors[i].message = "Too many constants in one chunk"
               \/ parser.errors[i].message \in {"Expect ';' after expression.",
                                                "Expect expression."}

\* an error with this message has been reported
Reported(message) ==
    \E i \in 1..Len(parser.errors) : parser.errors[i].message = message

\* compile is given this source
Compiling(s) == parser.scanner.source = s

\* compile is over: it has returned, or it will never return
Over == ended \/ parser.hung

\* compile has returned true
Compiles == ended /\ ~parser.had_error

\* C24: a name resolves to the innermost local of that name and otherwise to a
\* global, and a local read in its own initializer, { var a = a; }, is the error
\* Can't read local variable in its own initializer.  Fails: var is scanned as
\* an identifier (C19), no local is ever declared, the error reported is another
\* and the compiler never leaves synchronize.
C24_ResolveLocal ==
    /\ (Compiling(OwnInitializer) /\ Over) =>
           Reported("Can't read local variable in its own initializer.")
    /\ (Compiling(Shadowed) /\ Over) =>
           /\ Compiles
           /\ SubSeq(parser.chunk.code, 5, 5) = <<OpCode.GetLocal>>
           /\ parser.chunk.code[6] \in {1, 2}
    /\ (Compiling("{ a; }") /\ Over) =>
           /\ Compiles
           /\ parser.chunk.code = <<OpCode.GetGlobal, 0, OpCode.Pop, OpCode.Return>>

\* C25: a local declared with the name of another local of the same scope is
\* the error Already a variable with this name in this scope.; a local with the
\* name of a local of an enclosing scope, or of a global, is accepted.  Fails:
\* var is scanned as an identifier (C19) and no declaration is ever compiled.
C25_Redeclaration ==
    /\ (Compiling(Redeclared) /\ Over) =>
           Reported("Already a variable with this name in this scope.")
    /\ (Compiling(Shadowed) /\ Over) => Compiles
    /\ (Compiling(ShadowedGlobal) /\ Over) => Compiles

\* the bytes of operand that follow an opcode in a chunk
OperandBytes(op) ==
    IF op \in {OpCode.Jump, OpCode.JumpIfFalse, OpCode.Loop} THEN 2
    ELSE IF op \in {OpCode.Constant, OpCode.GetLocal, OpCode.SetLocal, OpCode.GetGlobal,
                    OpCode.DefineGlobal, OpCode.SetGlobal, OpCode.Call, OpCode.Closure}
    THEN 1
    ELSE 0

\* the SetLocal and SetGlobal instructions of code, from its byte i on
RECURSIVE Sets(_, _)
Sets(code, i) ==
    IF i > Len(code) THEN 0
    ELSE (IF code[i] \in {OpCode.SetLocal, OpCode.SetGlobal} THEN 1 ELSE 0)
         + Sets(code, i + 1 + OperandBytes(code[i]))

\* a program with the = signs it has after a name in assignment position
\* (targets), and whether it has an = after anything else (invalid)
AssignmentCase(s, targets, invalid) ==
    [source |-> s, targets |-> targets, invalid |-> invalid]

AssignmentCases ==
    {AssignmentCase(s, 0, TRUE) : s \in InvalidTargets \ {"a = b * c = d;"}}
    \cup {AssignmentCase("a = b * c = d;", 1, TRUE),
          AssignmentCase("a = 1;", 1, FALSE), AssignmentCase("a = b = 2;", 2, FALSE),
          AssignmentCase("a = b * c;", 1, FALSE), AssignmentCase("a = (b = 1);", 2, FALSE)}

\* C26: an = after an expression that is not a name in assignment position is
\* reported as Invalid assignment target. and compiles to no SetLocal or
\* SetGlobal; an = after a name parsed with can_assign is an assignment, one
\* set instruction each, and no error.
C26_InvalidAssignmentTarget ==
    \A c \in AssignmentCases :
        (Compiling(c.source) /\ Over) =>
            /\ c.invalid <=> Reported("Invalid assignment target.")
            /\ ~c.invalid => Compiles
            /\ Sets(parser.chunk.code, 1) = c.targets

\* a * b = c; has been refused, with the product compiled and nothing set
C26_Witness ==
    /\ Compiling("a * b = c;")
    /\ parser.hung
    /\ Reported("Invalid assignment target.")
    /\ parser.chunk.code = <<OpCode.GetGlobal, 0, OpCode.GetGlobal, 1, OpCode.Multiply,
                             OpCode.Pop>>

\* the Pop instructions of code, from its byte i on
RECURSIVE Pops(_, _)
Pops(code, i) ==
    IF i > Len(code) THEN 0
    ELSE (IF code[i] = OpCode.Pop THEN 1 ELSE 0)
         + Pops(code, i + 1 + OperandBytes(code[i]))

\* C35: the end of a block emits one Pop for each local declared in the block
\* and removes those locals: after } the locals are those before {, scope_depth
\* is what it was, and the block leaves the stack as high as it found it (the
\* other Pops of the chunk are those of its expression statements).  Fails: var is
\* scanned as an identifier (C19): a block that declares a local does not
\* compile, and the compiler never comes to its }.
C35_EndScope ==
    \A c \in BlockCases :
        (Compiling(c.source) /\ Over) =>
            /\ Compiles
            /\ parser.locals = <<>>
            /\ parser.scope_depth = 0
            /\ Pops(parser.chunk.code, 1) = c.locals + c.statements

\* C36: a compiled chunk, the script's included, ends with Nil, Return: the
\* Return finds a value to return above the callee.  Fails: emit_return emits the
\* Return alone, and the script's Return pops the script's closure as its result.
C36_ImplicitNil ==
    Compiles =>
        /\ Len(parser.chunk.code) >= 2
        /\ SubSeq(parser.chunk.code, Len(parser.chunk.code) - 1, Len(parser.chunk.code))
               = <<OpCode.Nil, OpCode.Return>>

\* C28: slot 0 of the compiler's locals is reserved for the function itself,
\* the script included, as slot 0 of a frame holds the callee: a local the
\* compiler resolves to slot s is the value at stack[frame.slot + s].  Fails:
\* the compiler starts without a local, and the first local declared would be
\* slot 0, where the VM keeps the script's closure.
C28_SlotZeroReserved ==
    /\ Len(parser.locals) >= 1
    /\ parser.locals[1].name.lexeme = ""
    /\ parser.locals[1].depth = 0

\* C29: where an operand is expected, a token without a prefix rule is a compile
\* error: a program with a missing operand does not compile.  Fails: a rule
\* without a prefix function is passed over in silence, and +; compiles (to a Pop
\* of a value that was never pushed).
C29_MissingOperand ==
    \A s \in MissingOperands : (Compiling(s) /\ Over) => parser.had_error

\* C30: after an error the compiler synchronizes and goes on: compile returns.
\* Fails: the loop of synchronize never advances, and unless the error is at the
\* end of the source or just after a ; it never ends.
C30_SynchronizeTerminates ==
    (parser.had_error /\ ~parser.scanner.panicked) => ~parser.hung

\* C31: in panic mode no diagnostic is written, and only synchronize leaves
\* panic mode: the diagnostics written are one for each synchronization, and one
\* more in panic mode; had_error is never cleared, and it is set exactly when a
\* diagnostic was written, so compile returns false exactly then.
C31_PanicMode ==
    /\ [](/\ Len(parser.errors) = parser.syncs + (IF parser.panic_mode THEN 1 ELSE 0)
          /\ parser.had_error <=> parser.errors # <<>>)
    /\ [][/\ parser.had_error => parser'.had_error
          /\ Len(parser'.errors) >= Len(parser.errors)
          /\ SubSeq(parser'.errors, 1, Len(parser.errors)) = parser.errors]_vars

\* 1 + ; @ 2 + ; 3 has been refused with three diagnostics, one for each
\* synchronization; a fourth (no ; before the 2) was not written
C31_Witness ==
    /\ Compiling("1 + ; @ 2 + ; 3")
    /\ ended
    /\ parser.had_error
    /\ Len(parser.errors) = 3
    /\ parser.syncs = 3
    /\ parser.errors[1].message = "Unexpected character."

(***************************************************************************)
(* mod.rs repl: one VM, one interpret call per line, for a long session.   *)
(***************************************************************************)
\* the n-th line of the session: the first makes clock a number and stops in a
\* subtraction; the second runs twice (its Return leaves three frames), makes
\* clock a string and stops in its subtraction the second time; the others
\* stop in a subtraction
SessionLine(n) ==
    IF n = 1 THEN "clock = 1; 1 - \"a\";"
    ELSE IF n = 2 THEN "clock - 1; clock = \"a\";"
    ELSE "1 - clock;"

ReplInit == Init

\* the loop of repl: the next line is read and given to interpret
ReplLine ==
    /\ status = "idle"
    /\ calls < MaxLines
    /\ InterpretSource(SessionLine(calls + 1), compile_function(SessionLine(calls + 1)))
    /\ fresh' = (frames = <<>> /\ stack = <<>>)
    /\ calls' = calls + 1
    /\ steps' = 0
    /\ trace' = <<>>
    /\ last_op' = -1
    /\ UNCHANGED unitvars

ReplNext ==
    \/ ReplLine
    \/ Op_Constant \/ Op_Pop \/ Op_GetGlobal \/ Op_SetGlobal \/ Op_Subtract \/ Op_Return

ReplSpec == ReplInit /\ [][ReplNext]_vars

\* C12: the frame stack never holds more than 256 frames.  Fails: call looks
\* for more than 256 frames before it pushes, and interpret pushes without
\* looking; the 129th line of the session runs on 257 frames.
C12_FrameLimit == Len(frames) <= 256


(***************************************************************************)
(* run on chunks written through Chunk::write and Chunk::add_constant, as  *)
(* the compiler's emitters write them: every arm of run's match, the Call  *)
(* and Closure arms included, which no source reaches through compile.     *)
(***************************************************************************)
\* the chunk after write(byte, 1) for each byte of code (one run of line 1)
\* and add_constant for each value of constants
Written(code, constants) ==
    [code |-> code,
     lines |-> IF code = <<>> THEN <<>> ELSE <<[number |-> 1, count |-> Len(code)]>>,
     constants |-> constants]

\* a Function of that arity and name over the chunk of code and constants
Assemble(arity, name, code, constants) ==
    [Function_new EXCEPT !.arity = arity, !.name = name,
                         !.chunk = Written(code, constants)]

\* fun f(a) { return a; }
FnIdentity ==
    Assemble(1, "f", <<OpCode.GetLocal, 1, OpCode.Return>>, <<>>)

\* fun g() { return nil; }
FnNil == Assemble(0, "g", <<OpCode.Nil, OpCode.Return>>, <<>>)

\* fun h(a) { a = 8; return a; }
FnSet ==
    Assemble(1, "h",
             <<OpCode.Constant, 0, OpCode.SetLocal, 1, OpCode.Pop, OpCode.GetLocal, 1,
               OpCode.Return>>,
             <<Num(8)>>)

\* the callee, then n arguments 7, then Call n, then the result printed
CallProgram(callee_code, n) ==
    callee_code
    \o Repeat(<<OpCode.Constant, 1>>, n)
    \o <<OpCode.Call, n, OpCode.Print_, OpCode.Return>>

\* clock(7, ...), with n arguments
NativeProgram(n) ==
    Assemble(0, "None", CallProgram(<<OpCode.GetGlobal, 0>>, n),
             <<StringObj_new("clock"), Num(7)>>)

\* f(7, ...), with n arguments, f declared for function.arity of them
ClosureProgram(function, n) ==
    Assemble(0, "None", CallProgram(<<OpCode.Closure, 0>>, n),
             <<ObjFunction(function), Num(7)>>)

\* v(7, ...) for a value v that is no closure and no native
ValueProgram(v, n) ==
    Assemble(0, "None", CallProgram(<<OpCode.Constant, 0>>, n), <<v, Num(7)>>)

\* two closures made of one Function constant, compared and printed
EqualProgram ==
    Assemble(0, "None",
             <<OpCode.Closure, 0, OpCode.Closure, 0, OpCode.Equal, OpCode.Print_,
               OpCode.Return>>,
             <<ObjFunction(FnNil)>>)

\* one instruction of each remaining arm:
\*   !true; false; nil; print (-7 + 7) * 7 / 7 - 7 < 7; 7 > 7; var g = 7;
\*   while (g == 7) g = 8;  and a jump over nothing, a local set to itself
TourProgram ==
    Assemble(0, "None",
             <<OpCode.True, OpCode.Not, OpCode.Pop,
               OpCode.False, OpCode.Pop,
               OpCode.Nil, OpCode.Pop,
               OpCode.Constant, 0, OpCode.Negate,
               OpCode.Constant, 0, OpCode.Add,
               OpCode.Constant, 0, OpCode.Multiply,
               OpCode.Constant, 0, OpCode.Divide,
               OpCode.Constant, 0, OpCode.Subtract,
               OpCode.Constant, 0, OpCode.Less, OpCode.Print_,
               OpCode.Constant, 0, OpCode.Constant, 0, OpCode.Greater, OpCode.Pop,
               OpCode.Constant, 0, OpCode.DefineGlobal, 1,
               OpCode.GetGlobal, 1, OpCode.Constant, 0, OpCode.Equal,
               OpCode.JumpIfFalse, 0, 9,
               OpCode.Pop,
               OpCode.Constant, 2, OpCode.SetGlobal, 1, OpCode.Pop,
               OpCode.Loop, 0, 17,
               OpCode.Pop,
               OpCode.Jump, 0, 0,
               OpCode.Constant, 0, OpCode.SetLocal, 1, OpCode.Pop,
               OpCode.Return>>,
             <<Num(7), StringObj_new("g"), Num(8)>>)

\* what the compiler emits for a program with branches and a loop, the emitters
\* called in the order if_statement and while_statement call them; b is the
\* Parser and the marks of its jumps and loops (as under EmitSpec)
Built(p) == [p |-> p, marks |-> <<>>]

\* if (condition) nil; else false;
EmitIf(b, condition) ==
    Let(emit_jump(emit_byte(b.p, condition), OpCode.JumpIfFalse), LAMBDA then_jump :
    Let(emit_bytes(emit_byte(then_jump, OpCode.Pop), OpCode.Nil, OpCode.Pop),
        LAMBDA then_clause :
    Let(emit_jump(then_clause, OpCode.Jump), LAMBDA else_jump :
    Let(emit_bytes(emit_byte(patch_jump(else_jump, then_jump.ret), OpCode.Pop),
                   OpCode.False, OpCode.Pop),
        LAMBDA else_clause :
        [p |-> patch_jump(else_clause, else_jump.ret),
         marks |-> b.marks \o
            <<[kind |-> "jump", at |-> then_jump.ret,
               patched |-> Len(else_jump.chunk.code)],
              [kind |-> "jump", at |-> else_jump.ret,
               patched |-> Len(else_clause.chunk.code)]>>]))))

\* var g = 7; while (g == 7) g = 8;
EmitWhile(b) ==
    Let(make_constant(emit_constant(b.p, Num(7)), StringObj_new("g")), LAMBDA name :
    Let(emit_bytes(name, OpCode.DefineGlobal, name.ret), LAMBDA defined :
    Let(emit_byte(emit_constant(emit_bytes(defined, OpCode.GetGlobal, name.ret), Num(7)),
                  OpCode.Equal),
        LAMBDA condition :
    Let(emit_jump(condition, OpCode.JumpIfFalse), LAMBDA exit_jump :
    Let(emit_byte(emit_bytes(emit_constant(emit_byte(exit_jump, OpCode.Pop), Num(8)),
                             OpCode.SetGlobal, name.ret),
                  OpCode.Pop),
        LAMBDA body :
    Let(emit_loop(body, Len(defined.chunk.code)), LAMBDA loop :
        [p |-> emit_byte(patch_jump(loop, exit_jump.ret), OpCode.Pop),
         marks |-> b.marks \o
            <<[kind |-> "loop", start |-> Len(defined.chunk.code),
               at |-> Len(body.chunk.code)],
              [kind |-> "jump", at |-> exit_jump.ret,
               patched |-> Len(loop.chunk.code)]>>]))))))

\* if (true) ..; if (false) ..; if (nil) ..; var g = 7; while ..
JumpsBuilt ==
    Let(EmitIf(Built(advance(advance(Parser_new("1;", Chunk_new)))), OpCode.True),
        LAMBDA first :
    Let(EmitIf(first, OpCode.False), LAMBDA second :
    Let(EmitIf(second, OpCode.Nil), LAMBDA third :
    Let(EmitWhile(third), LAMBDA whiled :
        [whiled EXCEPT !.p = end_compiler(@)]))))

JumpProgram == [Function_new EXCEPT !.chunk = JumpsBuilt.p.chunk]

\* print 7; with bytes that are no opcode's before it: the first above the
\* largest opcode, and the largest byte
InvalidProgram ==
    Assemble(0, "None",
             <<OpCode.Return + 1, 255, OpCode.Constant, 0, OpCode.Print_, OpCode.Return>>,
             <<Num(7)>>)

\* the programs, by name
Programs ==
    [name \in {"clock/0", "clock/1", "clock/2", "f/0", "f/1", "f/2", "g/0", "g/1",
               "7/0", "fn/0", "g == g", "tour", "26 255", "h/1", "jumps"} |->
        CASE name = "clock/0" -> NativeProgram(0)
          [] name = "clock/1" -> NativeProgram(1)
          [] name = "clock/2" -> NativeProgram(2)
          [] name = "f/0" -> ClosureProgram(FnIdentity, 0)
          [] name = "f/1" -> ClosureProgram(FnIdentity, 1)
          [] name = "f/2" -> ClosureProgram(FnIdentity, 2)
          [] name = "g/0" -> ClosureProgram(FnNil, 0)
          [] name = "g/1" -> ClosureProgram(FnNil, 1)
          [] name = "7/0" -> ValueProgram(Num(7), 0)
          [] name = "fn/0" -> ValueProgram(ObjFunction(FnNil), 0)
          [] name = "g == g" -> EqualProgram
          [] name = "tour" -> TourProgram
          [] name = "26 255" -> InvalidProgram
          [] name = "h/1" -> ClosureProgram(FnSet, 1)
          [] name = "jumps" -> JumpProgram]

RunInit == Init

\* VM::interpret on a source whose compile gives that Function
RunProgram ==
    /\ status = "idle"
    /\ calls < MaxCalls
    /\ \E name \in DOMAIN Programs :
           InterpretSource(name, [function |-> Programs[name], had_error |-> FALSE,
                                  errors |-> <<>>, hung |-> FALSE])
    /\ fresh' = (frames = <<>> /\ stack = <<>>)
    /\ calls' = calls + 1
    /\ steps' = 0
    /\ trace' = <<>>
    /\ last_op' = -1
    /\ UNCHANGED unitvars

RunNext ==
    \/ RunProgram
    \/ Op_Constant \/ Op_Nil \/ Op_True \/ Op_False \/ Op_Pop
    \/ Op_GetLocal \/ Op_SetLocal \/ Op_GetGlobal \/ Op_DefineGlobal \/ Op_SetGlobal
    \/ Op_Equal \/ Op_Greater \/ Op_Less
    \/ Op_Add \/ Op_Subtract \/ Op_Multiply \/ Op_Divide
    \/ Op_Not \/ Op_Negate \/ Op_Print
    \/ Op_Jump \/ Op_JumpIfFalse \/ Op_Loop
    \/ Op_Call \/ Op_Closure
    \/ Op_Return
    \/ Op_Invalid

RunSpec == RunInit /\ [][RunNext]_vars

\* the Call about to execute: its operand, and the value it finds arg_count down
CallArgs == read_byte(read_byte(VMState).vm).byte

Callee == stack[Len(stack) - CallArgs]

\* run is about to call a value of that variant with all its arguments in place
Calling(variant) ==
    /\ StepOf(OpCode.Call)
    /\ CallArgs < Len(stack)
    /\ Callee.type = variant


\* run stays inside this model: every fetch is inside the chunk
RunProgramIsModelled ==
    status = "running" =>
        /\ frames # <<>>
        /\ steps < MaxSteps
        /\ Live(read_byte(VMState).vm)
        /\ read_byte(VMState).byte \in 0..255


\* C9: Equal pops b and a and pushes whether they are of one variant with equal
\* payload, two closures being equal only when they are the same object.
\* Fails: two closures made of one function compare equal (g == g).
C9_EqualByIdentity ==
    [][(StepOf(OpCode.Equal) /\ Len(stack) >= 2) =>
          stack' = Append(Below(2), Bool(Identical(Second, Top)))]_vars

\* the frame a Call that succeeds pushes
CalledFrame == [closure |-> Callee, slot |-> Len(stack) - CallArgs - 1, ip |-> 0]

\* C11: Call on a closure with a number of arguments that is not its arity
\* writes Expected N argument(s) but got M., pushes no frame and ends the run
\* with RuntimeError; with the arity's number of arguments it pushes one frame
\* with ip 0 and slot = stack.len() - arg_count - 1 and leaves the stack, so the
\* frame's slot 0 is the callee and the arg_count slots after it the arguments.
C11_CallClosure ==
    [][(Calling("Closure") /\ Len(frames) <= 256) =>
          IF CallArgs # Callee.function.arity
          THEN /\ Len(frames') <= Len(frames)
               /\ status' # "running"
               /\ status' = "idle" => result' = "RuntimeError"
               /\ Len(stderr') > Len(stderr)
               /\ stderr'[Len(stderr) + 1] =
                      "Expected " \o NatToStr(Callee.function.arity)
                      \o " argument(s) but got " \o NatToStr(CallArgs) \o "."
          ELSE /\ Len(frames') = Len(frames) + 1
               /\ SubSeq(frames', 1, Len(frames) - 1) = SubSeq(frames, 1, Len(frames) - 1)
               /\ frames'[Len(frames')] = CalledFrame
               /\ stack' = stack
               /\ stack'[CalledFrame.slot + 1] = Callee
               /\ Len(stack') = CalledFrame.slot + 1 + CallArgs
               /\ status' = "running"]_vars

\* f(7) has been called: the third frame starts at f, with the 7 above it
C11_Witness ==
    /\ Running("f/1")
    /\ fresh
    /\ last_op = OpCode.Call
    /\ Len(frames) = 3
    /\ frames[3] = [closure |-> stack[2], slot |-> 1, ip |-> 0]
    /\ stack[2].type = "Closure"
    /\ stack[3] = Num(7)

\* C13: Call on a native function with N arguments removes the callee and the
\* N arguments and pushes the result: the stack is N lower after the call.
\* Fails: the stack is cut to len - N + 1, one higher than before (clock()).
C13_CallNative ==
    [][Calling("NativeFunction") =>
          /\ Len(stack') = Len(stack) - CallArgs
          /\ SubSeq(stack', 1, Len(stack') - 1) = SubSeq(stack, 1, Len(stack) - CallArgs - 1)
          /\ stack'[Len(stack')].type = "Number"
          /\ status' = "running"]_vars

\* the bytes a chunk may hold
U8 == 0..255

\* C22: a byte is decoded to an opcode exactly when it is one of 0..25, the
\* opcode decoded is the one that is encoded as that byte, and a run that
\* fetches any other byte stops there.  Fails: the byte falls into the arm
\* _ => () and the run goes on with the next byte (26 255).
C22_InvalidOpcodeRejected ==
    [][/\ \A value \in U8 : OpCode_try_from(value).ok <=> value \in 0..25
       /\ \A value \in 0..25 : OpCode_into(OpCode_try_from(value).variant) = value
       /\ \A variant \in DOMAIN OpCode :
              OpCode_try_from(OpCode_into(variant)) = [ok |-> TRUE, variant |-> variant]
       /\ (status = "running" /\ steps' = steps + 1
           /\ read_byte(VMState).byte \notin 0..25) => status' # "running"]_vars

\* the operand of the instruction about to be fetched
Operand == read_byte(read_byte(VMState).vm).byte

\* C27: SetLocal s writes the value on top of the stack into
\* stack[frame.slot + s] of the current frame, the slot GetLocal s reads, and
\* changes nothing else of the stack (nothing is popped), whatever the slot of the
\* frame.  Fails: the frame's slot is not added, and in a frame whose slot is 1
\* SetLocal 1 writes over the callee instead of the argument.
C27_SetLocal ==
    [][StepOf(OpCode.SetLocal) =>
           stack' = [stack EXCEPT ![current_frame(VMState).slot + Operand + 1] = Top]]_vars

\* the ip of the current frame
Ip == current_frame(VMState).ip

\* C33: a Jump, and a JumpIfFalse on a falsey value, leave ip at the length the
\* code had when the jump was patched; a JumpIfFalse on a truthy value leaves ip
\* at the byte after its operand; a Loop leaves ip at the loop_start it was
\* emitted for.
C33_JumpTargets ==
    [][\A i \in 1..Len(JumpsBuilt.marks) :
           LET m == JumpsBuilt.marks[i]
               ip == frames'[Len(frames')].ip
           IN  /\ (Running("jumps") /\ m.kind = "jump" /\ Ip = m.at - 1) =>
                      /\ StepOf(OpCode.Jump) => ip = m.patched
                      /\ StepOf(OpCode.JumpIfFalse) =>
                             ip = IF Falsey(Top) THEN m.patched ELSE m.at + 2
               /\ (Running("jumps") /\ m.kind = "loop" /\ Ip = m.at) =>
                      (StepOf(OpCode.Loop) => ip = m.start)]_vars

\* the loop of the program has gone back to its start, once
C33_Witness ==
    /\ Running("jumps")
    /\ status = "running"
    /\ last_op = OpCode.Loop
    /\ globals["g"] = Num(8)
    /\ \E i \in 1..Len(JumpsBuilt.marks) :
           JumpsBuilt.marks[i].kind = "loop" /\ Ip = JumpsBuilt.marks[i].start

(***************************************************************************)
(* object.rs on its own: StringObj::new on strings that grow by a char.    *)
(***************************************************************************)
\* the chars the strings are made of: of one byte (of the codes 32, 48, 97
\* and 126) and of two
KeyChars == {" ", "0", "a", "~", "é"}

HashInit ==
    /\ VMIdle
    /\ scanner = Scanner_new("")
    /\ tokens = <<>>
    /\ chunk = Chunk_new
    /\ written = <<>>
    /\ parser = Parser_new("", Chunk_new)
    /\ ended = FALSE
    /\ object = StringObj_new("")
    /\ marks = <<>>

\* StringObj::new(string), for a string of one more char
NewString ==
    /\ Len(object.string) < MaxKey
    /\ \E c \in KeyChars : object' = StringObj_new(object.string \o c)
    /\ UNCHANGED <<vmvars, scanner, tokens, chunk, written, parser, ended, marks>>

HashNext == NewString

HashSpec == HashInit /\ [][HashNext]_vars

\* a u32 as its 32 bits, the lowest first
Bits(hash) ==
    [i \in 0..31 |-> IF i < 16 THEN (hash.lo \div (2 ^ i)) % 2
                     ELSE (hash.hi \div (2 ^ (i - 16))) % 2]

\* the bits of h XOR byte
XorBits(h, byte) ==
    [i \in 0..31 |-> IF i < 8 THEN (h[i] + ((byte \div (2 ^ i)) % 2)) % 2 ELSE h[i]]

\* 16777619 = 2^24 + 2^8 + 2^7 + 2^4 + 2^1 + 2^0
PrimeBits == {24, 8, 7, 4, 1, 0}

\* the ones that meet in the column i of the product of h by 16777619
Column(h, i) == Cardinality({k \in PrimeBits : k <= i /\ h[i - k] = 1})

\* the carry into the column i of that product
RECURSIVE Carry(_, _)
Carry(h, i) == IF i = 0 THEN 0 ELSE (Column(h, i - 1) + Carry(h, i - 1)) \div 2

\* the bits of (h * 16777619) mod 2^32
TimesPrime(h) == [i \in 0..31 |-> (Column(h, i) + Carry(h, i)) % 2]

\* the 32-bit FNV-1a hash of a sequence of bytes, from 2166136261 =
\* 2^31 + 2^24 + 7 * 2^18 + 2^15 + 2^12 + 7 * 2^10 + 7 * 2^6 + 2^2 + 2^0
RECURSIVE Fnv1a(_, _)
Fnv1a(bytes, n) ==
    IF n = 0
    THEN [i \in 0..31 |-> IF i \in {31, 24, 20, 19, 18, 15, 12, 11, 10, 8, 7, 6, 2, 0}
                          THEN 1 ELSE 0]
    ELSE Let(Fnv1a(bytes, n - 1), LAMBDA h :
         Let(XorBits(h, bytes[n]), LAMBDA x : TimesPrime(x)))

\* the bytes of the chars of KeyChars
KeyBytes(c) ==
    CASE c = " " -> <<32>> [] c = "0" -> <<48>> [] c = "a" -> <<97>> [] c = "~" -> <<126>>
      [] c = "é" -> <<195, 169>>

RECURSIVE BytesOf(_)
BytesOf(key) ==
    IF key = "" THEN <<>>
    ELSE KeyBytes(SubSeq(key, 1, 1)) \o BytesOf(SubSeq(key, 2, Len(key)))

\* C23: the hash of a StringObj is the 32-bit FNV-1a hash of the bytes of its
\* string: from 2166136261, h becomes ((h XOR byte) * 16777619) mod 2^32 for
\* each byte in order; and it is what hash_string gives for the string.
C23_HashIsFnv1a ==
    /\ Let(BytesOf(object.string), LAMBDA bytes :
            Bits(object.hash) = Fnv1a(bytes, Len(bytes)))
    /\ object.hash = hash_string(object.string)

\* the hash of "a é" has been computed (four bytes)
C23_Witness ==
    /\ object.string = "a é"
    /\ object.hash = U32(28727, 44324)

(***************************************************************************)
(* compiler.rs: the emitters of jumps on their own, on a Parser that has   *)
(* taken a token: emit_jump, patch_jump and emit_loop, with blocks of      *)
(* bytes emitted in between, as the statements of a body emit them.        *)
(***************************************************************************)
\* u16::MAX
U16Max == 65535

\* the calls made on one Parser
MaxEmits == 4

\* the bytes a body emits: one, or nearly as many as a loop or a jump can pass
BlockSizes == {1, U16Max - 4, U16Max - 1}

\* a long body has been emitted
Long == \E i \in 1..Len(marks) : marks[i].kind = "block" /\ marks[i].n > 1

\* a jump that is not patched yet, a loop that is not closed yet
Pending(kind) ==
    \E i \in 1..Len(marks) :
        /\ marks[i].kind = kind
        /\ IF kind = "jump" THEN marks[i].patched = -1 ELSE marks[i].at = -1

\* emit_byte n times (n > 0), of the opcode Nil
emit_block(p, n) ==
    LET line == p.previous.line
        k == Len(p.chunk.lines)
    IN  [p EXCEPT !.chunk.code = @ \o [i \in 1..n |-> OpCode.Nil],
                  !.chunk.lines = IF k > 0 /\ @[k].number = line
                                  THEN [@ EXCEPT ![k].count = @ + n]
                                  ELSE Append(@, [number |-> line, count |-> n])]

\* the Parser of 1; after its first token
EmitInit ==
    /\ VMIdle
    /\ scanner = Scanner_new("")
    /\ tokens = <<>>
    /\ chunk = Chunk_new
    /\ written = <<>>
    /\ parser = advance(advance(Parser_new("1;", Chunk_new)))
    /\ ended = FALSE
    /\ object = StringObj_new("")
    /\ marks = <<>>

EmitUnchanged == UNCHANGED <<vmvars, scanner, tokens, chunk, written, ended, object>>

\* a body, after a jump or the start of a loop: n bytes; at most one long body,
\* and no jump or loop is begun after it
EmitBlock ==
    /\ Len(marks) < MaxEmits
    /\ IF Pending("jump") THEN TRUE ELSE Pending("loop")
    /\ \E n \in BlockSizes :
           /\ n > 1 => ~Long
           /\ parser' = emit_block(parser, n)
           /\ marks' = Append(marks, [kind |-> "block", n |-> n])
    /\ EmitUnchanged

\* emit_jump(instruction); the mark keeps the offset it returns
EmitJump ==
    /\ Len(marks) < MaxEmits
    /\ ~Pending("jump")
    /\ ~Long
    /\ \E instruction \in {OpCode.Jump, OpCode.JumpIfFalse} :
           /\ parser' = emit_jump(parser, instruction)
           /\ marks' = Append(marks, [kind |-> "jump", at |-> emit_jump(parser, instruction).ret,
                                      patched |-> -1])
    /\ EmitUnchanged

\* patch_jump(offset) of a jump not patched yet; the mark keeps the length of the
\* code at that time
PatchJump ==
    /\ \E i \in 1..Len(marks) :
           /\ marks[i].kind = "jump"
           /\ marks[i].patched = -1
           /\ parser' = patch_jump(parser, marks[i].at)
           /\ marks' = [marks EXCEPT ![i].patched = Len(parser.chunk.code)]
    /\ EmitUnchanged

\* let loop_start = code.len()
LoopStart ==
    /\ Len(marks) < MaxEmits
    /\ ~Pending("loop")
    /\ ~Long
    /\ marks' = Append(marks, [kind |-> "loop", start |-> Len(parser.chunk.code), at |-> -1])
    /\ UNCHANGED parser
    /\ EmitUnchanged

\* emit_loop(loop_start) of a loop not closed yet; the mark keeps the offset of
\* the Loop opcode
EmitLoop ==
    /\ \E i \in 1..Len(marks) :
           /\ marks[i].kind = "loop"
           /\ marks[i].at = -1
           /\ parser' = emit_loop(parser, marks[i].start)
           /\ marks' = [marks EXCEPT ![i].at = Len(parser.chunk.code)]
    /\ EmitUnchanged

EmitNext == EmitBlock \/ EmitJump \/ PatchJump \/ LoopStart \/ EmitLoop

EmitSpec == EmitInit /\ [][EmitNext]_vars

\* the two bytes at offset o of the code, read as a big-endian number
Short(code, o) == code[o + 1] * 256 + code[o + 2]

\* the displacement a patched jump is to have, and a closed loop
JumpOf(m) == m.patched - (m.at + 2)

LoopOf(m) == m.at + 3 - m.start

\* the displacements asked of this Parser so far
Displacements ==
    {JumpOf(marks[i]) : i \in {j \in 1..Len(marks) :
                                  marks[j].kind = "jump" /\ marks[j].patched # -1}}
    \cup {LoopOf(marks[i]) : i \in {j \in 1..Len(marks) :
                                       marks[j].kind = "loop" /\ marks[j].at # -1}}

\* C32: patch_jump writes into the two bytes at the offset emit_jump returned the
\* length of the code at the time of the patch less that offset less 2, high byte
\* first; emit_loop emits, high byte first, the length of the code before its
\* opcode, plus 3, less loop_start, which is above zero; and a displacement above
\* 65,535, and nothing else here, is a compile error.
C32_Displacements ==
    /\ \A i \in 1..Len(marks) :
           /\ (marks[i].kind = "jump" /\ marks[i].patched # -1 /\ JumpOf(marks[i]) <= U16Max)
                  => Short(parser.chunk.code, marks[i].at) = JumpOf(marks[i])
           /\ (marks[i].kind = "loop" /\ marks[i].at # -1) =>
                  /\ parser.chunk.code[marks[i].at + 1] = OpCode.Loop
                  /\ LoopOf(marks[i]) > 0
                  /\ LoopOf(marks[i]) <= U16Max
                         => Short(parser.chunk.code, marks[i].at + 1) = LoopOf(marks[i])
    /\ parser.had_error <=> \E d \in Displacements : d > U16Max
    /\ \A i \in 1..Len(parser.errors) :
           parser.errors[i].message \in {"Too much code to jump over.", "Loop body too large."}

\* a jump over 65,535 bytes has been patched, its operand 255 255, without error
C32_Witness ==
    /\ \E i \in 1..Len(marks) :
           /\ marks[i].kind = "jump"
           /\ marks[i].patched # -1
           /\ JumpOf(marks[i]) = U16Max
           /\ Short(parser.chunk.code, marks[i].at) = U16Max
    /\ ~parser.had_error

(***************************************************************************)
(* run on the chunks compile produces (Spec): where it fetches, and what   *)
(* it finds on the stack.                                                  *)
(***************************************************************************)
\* the offset of the instruction after the one at offset o
Following(code, o) == o + 1 + OperandBytes(code[o + 1])

\* the instruction starts from the start i up to the first one at or after limit
RECURSIVE Decode(_, _, _)
Decode(code, i, limit) ==
    IF i >= limit \/ i >= Len(code) THEN {i}
    ELSE {i} \cup Decode(code, Following(code, i), limit)

\* the offsets of code at which an instruction starts, decoding from the start i,
\* a stretch of 32 bytes at a time
RECURSIVE Boundaries(_, _)
Boundaries(code, i) ==
    IF i >= Len(code) THEN {}
    ELSE Let(Decode(code, i, i + 32), LAMBDA starts :
         Let(CHOOSE n \in starts : \A m \in starts : m <= n, LAMBDA last :
         (starts \ {last}) \cup Boundaries(code, last)))

\* the code of the current frame
FrameCode == current_frame(VMState).closure.function.chunk.code

\* C37: while a chunk that compile produced without error is run, every fetch is
\* at the start of an instruction inside the code: never on an operand byte,
\* never past the end.
C37_FetchAtBoundary ==
    (status = "running" /\ ~report.had_error) =>
        /\ frames # <<>>
        /\ Ip \in Boundaries(FrameCode, 0)

\* the run of 1 + 2 * 3; is about to fetch its Multiply, after three constants
C37_Witness ==
    /\ Running("1 + 2 * 3;")
    /\ status = "running"
    /\ ~report.had_error
    /\ steps = 3
    /\ Ip = 6
    /\ FrameCode[Ip + 1] = OpCode.Multiply

\* C38: the run of a chunk that compile produced without error never pops or
\* peeks an empty stack.  Fails: the script's Return pops its result, and then
\* once more when one frame is left: the stack held the closure alone (C36, C15)
\* and the second pop finds it empty.
C38_NoUnderflow ==
    (calls > 0 /\ ~report.had_error) => status # "panicked"

(***************************************************************************)
(* The lines of the chunk the compiler writes (CompileSpec).               *)
(***************************************************************************)
\* C39: in the chunk the compiler has written so far, get_line does not decrease
\* from an instruction start to the next one, hence not between any two
\* instruction starts o1 <= o2.
C39_LinesMonotone ==
    LET c == parser.chunk
    IN  \A o \in Boundaries(c.code, 0) :
            Following(c.code, o) < Len(c.code) =>
                Chunk_get_line(c, o) <= Chunk_get_line(c, Following(c.code, o))

\* 1 + 2; 3; on lines 1, 2 and 4: the Add is on the line of the 2, the Return
\* on the line of the last ;
C39_Witness ==
    /\ Compiling("1 +\n2;\n\n3;")
    /\ Compiles
    /\ LET c == parser.chunk
       IN  /\ c.code = <<OpCode.Constant, 0, OpCode.Constant, 1, OpCode.Add, OpCode.Pop,
                         OpCode.Constant, 2, OpCode.Pop, OpCode.Return>>
           /\ Chunk_get_line(c, 0) = 1
           /\ Chunk_get_line(c, 4) = 2
           /\ Chunk_get_line(c, 6) = 4
           /\ Chunk_get_line(c, 9) = 4

====
